---- MODULE Spec2Model ----
(***************************************************************************)
(* Model of aries-staticagent-python: protocol-versioned dispatch          *)
(* (HandlerDispatcher), the Connection.queue scopes backed by MsgQueue,    *)
(* and the Connection's return-route sessions.                             *)
(* Further parts: MsgQueue on its own, MessageTrustContext, packing and    *)
(* unpacking with forwarding, and the equality of message types.           *)
(***************************************************************************)
EXTENDS Integers, Sequences, FiniteSets, Bags, TLC

VARIABLES
    handlers,          \* HandlerDispatcher.handlers: normalized type -> handler
    handler_versions,  \* HandlerDispatcher.handler_versions: key -> set of versions
    selected,          \* result of the HandlerDispatcher.dispatch call made on the current tables, if any
    added,             \* the HandlerDispatcher.add call made last on the tables, if any, and the handler it found registered
    removed,           \* the HandlerDispatcher.remove call made last on the tables, if any, and its outcome
    dispatcher,        \* Connection._dispatcher: 0 = the handler dispatcher, s = QueueDispatcher of scope s
    scopes,            \* the Connection.queue scopes entered so far, in order of entry
    msgs,              \* the types of the messages passed to Connection.handle so far, in order
    handled,           \* per message: how often it was passed to a registered handler
    refused,           \* per message: how often HandlerDispatcher.dispatch raised NoRegisteredHandlerException for it
    got,               \* per message: the scopes whose queue.get returned it, in order
    sessions,          \* Connection._sessions: the bag of the states of its Session objects
    target,            \* Connection.target: whether recipients and an endpoint are set
    sends,             \* the send_async or send_to_session call made by the last step, if any, and its outcome
    _queue,            \* MsgQueue._queue of a MsgQueue used on its own: the entries, as indices into msgs
    tasks,             \* the tasks that called MsgQueue.get on that queue, in order of their calls
    targets,           \* Connection.target of the connections that pack: recipients and routing_keys
    packed,            \* the Connection.pack call made last, if any: its arguments and its outcome
    unpacked,          \* the Connection.unpack call made last, if any: its input and its outcome
    compared,          \* the comparison of two types made last, if any: its operands and its outcome
    derived,           \* the with_transport, with_thread or send_async call made last, if any: the caller's message before and after the call, and the message made from it
    _next,             \* StaticConnection._next: the dict from conditions to futures, in insertion order
    futures,           \* the futures made by StaticConnection.next so far, in order: their state and that of the scope that made them
    received,          \* the messages passed to StaticConnection.handle so far, in order: the futures each resolved, and whether it was dispatched
    suspended,         \* the send_to_session call suspended at `await session.send(message)`, if any: its arguments, its set iterator and the sessions it has sent to
    mtc                \* a MessageTrustContext: _affirmed, _denied, additional_data's sender and recipient, the exception of the constructor call, the last operation

selVars == <<handlers, handler_versions, selected, added, removed>>
qVars == <<dispatcher, scopes, msgs, handled, refused, got>>
sVars == <<sessions, target, sends, suspended>>
mVars == <<_queue, tasks>>
tVars == <<mtc>>
nVars == <<_next, futures, received>>
pVars == <<targets, packed, unpacked, compared, derived, nVars>>
vars == <<handlers, handler_versions, selected, added, removed, dispatcher, scopes, msgs,
          handled, refused, got, sessions, target, sends, suspended, _queue, tasks, mtc,
          targets, packed, unpacked, compared, derived, _next, futures,
          received>>

None == "None"

Range(f) == {f[k] : k \in DOMAIN f}

(***************************************************************************)
(* Message types and versions (message.py)                                 *)
(***************************************************************************)

\* Bounds of the dispatch model
MaxMajor == 3
MaxRegistered == 2

\* (doc_uri, protocol, name) triples
TypeKeys == {"doc;proto/name", "doc;other/name"}
Minors == {0, 4}
Handlers == {"h1", "h2"}

\* A version as it is written in a type string: major.minor or major.minor.patch
VersionStrs ==
    {<<ma, mi>> : ma \in 1..MaxMajor, mi \in Minors}
        \cup {<<ma, mi, 0>> : ma \in 1..MaxMajor, mi \in Minors}

\* MsgVersion.from_str: an abbreviated version gets patch 0
from_str(version_str) ==
    IF Len(version_str) = 2 THEN Append(version_str, 0) ELSE version_str

MsgType_as_written(key, version_str) ==
    [key |-> key,
     version |-> version_str,
     version_info |-> from_str(version_str),
     normalized |-> <<key, version_str>>]

\* MsgType.__init__: the parsed parts of a type string
MsgType(key, version_str) ==
    [key |-> key,
     version |-> version_str,
     version_info |-> from_str(version_str),
     normalized |-> <<key, from_str(version_str)>>]

\* MsgType.unparse with a VersionInfo: the version is written out in full
unparse(key, version_info) == MsgType(key, version_info)

MsgTypes == {MsgType(k, v) : k \in TypeKeys, v \in VersionStrs}

\* VersionInfo ordering: by (major, minor, patch)
VersionLess(a, b) ==
    \/ a[1] < b[1]
    \/ a[1] = b[1] /\ a[2] < b[2]
    \/ a[1] = b[1] /\ a[2] = b[2] /\ a[3] < b[3]

MaxVersion(S) == CHOOSE v \in S : \A w \in S : w = v \/ VersionLess(w, v)
MinVersion(S) == CHOOSE v \in S : \A w \in S : w = v \/ VersionLess(v, w)

\* reversed(SortedSet): the versions from highest to lowest
RECURSIVE reversed(_)
reversed(S) ==
    IF S = {} THEN <<>>
    ELSE <<MaxVersion(S)>> \o reversed(S \ {MaxVersion(S)})

RECURSIVE ascending(_)
ascending(S) ==
    IF S = {} THEN <<>>
    ELSE <<MinVersion(S)>> \o ascending(S \ {MinVersion(S)})

(***************************************************************************)
(* HandlerDispatcher (dispatcher/handler_dispatcher.py)                    *)
(***************************************************************************)

\* self.handlers[normalized]: a dict raises KeyError for a missing key
KeyError == "KeyError"
lookup(hs, normalized) ==
    IF normalized \in DOMAIN hs THEN hs[normalized] ELSE KeyError

\* the loop of HandlerDispatcher.select over the registered versions
RECURSIVE select_loop(_, _, _)
select_loop(versions, type, hs) ==
    IF versions = <<>> THEN None
    ELSE LET version == Head(versions) IN
         IF type.version_info[1] = version[1]
         THEN lookup(hs, unparse(type.key, version).normalized)
         ELSE IF type.version_info[1] > version[1]
              THEN None
              ELSE select_loop(Tail(versions), type, hs)

\* A loop that passes over the versions above the message's version
RECURSIVE select_loop_not_newer(_, _, _)
select_loop_not_newer(versions, type, hs) ==
    IF versions = <<>> THEN None
    ELSE LET version == Head(versions) IN
         IF /\ type.version_info[1] = version[1]
            /\ ~VersionLess(type.version_info, version)
         THEN lookup(hs, unparse(type.key, version).normalized)
         ELSE IF type.version_info[1] > version[1]
              THEN None
              ELSE select_loop_not_newer(Tail(versions), type, hs)

select_not_newer(hs, hv, type) ==
    IF type.key \notin DOMAIN hv THEN None
    ELSE select_loop_not_newer(reversed(hv[type.key]), type, hs)

select_any_major(hs, hv, type) ==
    IF type.key \notin DOMAIN hv THEN None
    ELSE lookup(hs, unparse(type.key, MaxVersion(hv[type.key])).normalized)

select_lowest(hs, hv, type) ==
    IF type.key \notin DOMAIN hv THEN None
    ELSE select_loop(ascending(hv[type.key]), type, hs)

\* HandlerDispatcher.select
select(hs, hv, type) ==
    IF type.key \notin DOMAIN hv THEN None
    ELSE select_loop(reversed(hv[type.key]), type, hs)

\* HandlerDispatcher.dispatch: the handler called, or the exception raised
HandlerDispatch(hs, hv, type) ==
    LET handler == select(hs, hv, type) IN
    IF handler = KeyError
    THEN [handler |-> None, raised |-> KeyError]
    ELSE IF handler = None
    THEN [handler |-> None, raised |-> "NoRegisteredHandlerException"]
    ELSE [handler |-> handler, raised |-> None]

\* HandlerDispatcher.add
add(msg_type, handler) ==
    /\ \/ msg_type.normalized \in DOMAIN handlers
       \/ Cardinality(DOMAIN handlers) < MaxRegistered
    /\ handlers' = [n \in DOMAIN handlers \cup {msg_type.normalized} |->
                        IF n = msg_type.normalized THEN handler ELSE handlers[n]]
    /\ handler_versions' =
           [k \in DOMAIN handler_versions \cup {msg_type.key} |->
                IF k = msg_type.key
                THEN (IF k \in DOMAIN handler_versions THEN handler_versions[k] ELSE {})
                         \cup {msg_type.version_info}
                ELSE handler_versions[k]]
    /\ selected' = << >>
    /\ added' = <<[type |-> msg_type, handler |-> handler,
                  was |-> lookup(handlers, msg_type.normalized)]>>
    /\ removed' = << >>
    /\ UNCHANGED <<qVars, sVars, mVars, tVars, pVars>>

\* HandlerDispatcher.clear
clear ==
    /\ handlers' = << >>
    /\ handler_versions' = << >>
    /\ selected' = << >>
    /\ added' = << >>
    /\ removed' = << >>
    /\ UNCHANGED <<qVars, sVars, mVars, tVars, pVars>>

\* HandlerDispatcher.dispatch(msg) on a message of the given type
Dispatch(type) ==
    /\ selected' = <<[type |-> type] @@ HandlerDispatch(handlers, handler_versions, type)>>
    /\ added' = << >>
    /\ removed' = << >>
    /\ UNCHANGED <<handlers, handler_versions>>
    /\ UNCHANGED <<qVars, sVars, mVars, tVars, pVars>>

\* HandlerDispatcher.remove.  After the handler is deleted,
\* self.handler_versions[key].remove(key) is called with the key, not with
\* msg_type.version_info: the key is no member of the SortedSet of versions,
\* so SortedSet.remove raises KeyError and the version stays in the index.
remove(msg_type) ==
    /\ IF msg_type.normalized \notin DOMAIN handlers
       THEN /\ removed' = <<[type |-> msg_type,
                              raised |-> "NoRegisteredHandlerException"]>>
            /\ UNCHANGED <<handlers, handler_versions>>
       ELSE /\ handlers' = [n \in DOMAIN handlers \ {msg_type.normalized} |->
                                handlers[n]]
            /\ handler_versions' = handler_versions
            /\ removed' = <<[type |-> msg_type, raised |-> KeyError]>>
    /\ added' = << >>
    /\ selected' = << >>
    /\ UNCHANGED <<qVars, sVars, mVars, tVars, pVars>>

SelInit ==
    /\ handlers = << >>
    /\ handler_versions = << >>
    /\ selected = << >>
    /\ added = << >>
    /\ removed = << >>

QInit ==
    /\ dispatcher = 0
    /\ scopes = << >>
    /\ msgs = << >>
    /\ handled = << >>
    /\ refused = << >>
    /\ got = << >>

SInit ==
    /\ sessions = EmptyBag
    /\ target = [recipients |-> FALSE, endpoint |-> FALSE]
    /\ sends = << >>
    /\ suspended = << >>

MInit ==
    /\ _queue = << >>
    /\ tasks = << >>

\* MessageTrustContext(): nothing affirmed, nothing denied
TInit == mtc = [affirmed |-> {}, denied |-> {}, sender |-> None,
                recipient |-> None, raised |-> None, op |-> "__init__"]

\* The verkeys (bytes) of Alice's and of Bob's Keys
Alice == "vkA"
Bob == "vkB"

\* Target(their_vk=...): one recipient, no routing keys
Target(their_vk) == [recipients |-> <<their_vk>>, routing_keys |-> << >>]

\* Connection.receiver(keys): no recipients, no routing keys
NoTarget == [recipients |-> << >>, routing_keys |-> << >>]

\* No pack call, no unpack call
NoCall == [call |-> None]

\* Alice = Connection.from_parts(alice_keys, their_vk=bob_keys.verkey) and
\* Bob likewise with Alice's verkey; nothing packed or unpacked yet
PInit ==
    /\ targets = [c \in {Alice, Bob} |->
                      Target(IF c = Alice THEN Bob ELSE Alice)]
    /\ packed = NoCall
    /\ unpacked = NoCall
    /\ compared = << >>
    /\ derived = << >>
    /\ _next = << >>
    /\ futures = << >>
    /\ received = << >>

Init == SelInit /\ QInit /\ SInit /\ MInit /\ TInit /\ PInit

SelNext ==
    \/ \E t \in MsgTypes, h \in Handlers : add(t, h)
    \/ clear
    \/ \E t \in MsgTypes : Dispatch(t)

\* The handler dispatcher: registrations through add and clear, and dispatch
SpecSelect == Init /\ [][SelNext]_vars

\* The types of one (doc_uri, protocol, name)
OneKeyTypes == {t \in MsgTypes : t.key = "doc;proto/name"}

\* The version index has room for the version of the type, or holds it
IndexHasRoom(type) ==
    type.key \in DOMAIN handler_versions =>
        \/ type.version_info \in handler_versions[type.key]
        \/ Cardinality(handler_versions[type.key]) < MaxRegistered

RemoveNext ==
    \/ \E t \in OneKeyTypes, h \in Handlers : IndexHasRoom(t) /\ add(t, h)
    \/ clear
    \/ \E t \in OneKeyTypes : remove(t)
    \/ \E t \in OneKeyTypes : Dispatch(t)

\* The handler dispatcher with removal: add, clear, remove and dispatch on
\* the types of one key
SpecRemove == Init /\ [][RemoveNext]_vars

(***************************************************************************)
(* Connection.queue scopes and MsgQueue (connection.py,                    *)
(* dispatcher/queue_dispatcher.py)                                         *)
(***************************************************************************)

\* Bounds of the queue model
MaxScopes == 2
MaxMsgs == 2

\* Message types: the connection has handlers registered for "a", "b" and
\* "c" and none for "d".
Kinds == {"a", "b", "c", "d"}
Registered == {"a", "b", "c"}
\* A scope's condition: None, P1 (the type is "a") or P2 (the type is "b")
Conditions == {None, "a", "b"}

\* `not self.condition or self.condition(msg)` in MsgQueue.put
Matches(condition, m) == condition = None \/ condition = m

\* Where Dispatcher d sends message m: 0 when it reaches the handler
\* dispatcher, s when the MsgQueue of scope s appends it.
\* dispatch is QueueDispatcher.dispatch, put is MsgQueue.put.
RECURSIVE dispatch(_, _, _)
RECURSIVE put(_, _, _)
dispatch(sc, d, m) == IF d = 0 THEN 0 ELSE put(sc, d, m)

put(sc, s, m) ==
    IF Matches(sc[s].condition, m) THEN s
    ELSE dispatch(sc, sc[s].original, m)

\* The queue a message is appended to by dispatch, if any
Enqueued(sc, d, i, m) ==
    LET dest == dispatch(sc, d, m) IN
    IF dest = 0 THEN sc ELSE [sc EXCEPT ![dest].queue = Append(@, i)]

\* HandlerDispatcher.dispatch raises NoRegisteredHandlerException for m
Raises(sc, d, m) == dispatch(sc, d, m) = 0 /\ m \notin Registered

\* HandlerDispatcher.dispatch passes m to its registered handler
Calls(sc, d, m) == dispatch(sc, d, m) = 0 /\ m \in Registered

\* list.pop(index)
pop_keep(queue, index) == queue

pop(queue, index) ==
    SubSeq(queue, 1, index - 1) \o SubSeq(queue, index + 1, Len(queue))

\* MsgQueue._first_matching_index; 0 stands for None
_first_matching_index(queue, condition) ==
    IF \E k \in DOMAIN queue : msgs[queue[k]] = condition
    THEN CHOOSE k \in DOMAIN queue :
            /\ msgs[queue[k]] = condition
            /\ \A j \in 1..(k - 1) : msgs[queue[j]] # condition
    ELSE 0

\* The index MsgQueue._get pops: the last entry when no condition is given,
\* else the first matching entry; 0 when _get keeps waiting
GetIndex(queue, condition) ==
    IF queue = << >> THEN 0
    ELSE IF condition = None THEN Len(queue)
    ELSE _first_matching_index(queue, condition)

\* The scopes whose body is running
OpenScopes == {s \in DOMAIN scopes : scopes[s].st = "open"}

\* Connection.dispatch(message): the message, a new one, goes through the
\* active dispatcher to a queue or to the handler dispatcher
Connection_dispatch(m) ==
    /\ msgs' = Append(msgs, m)
    /\ scopes' = Enqueued(scopes, dispatcher, Len(msgs) + 1, m)
    /\ handled' = Append(handled, IF Calls(scopes, dispatcher, m) THEN 1 ELSE 0)
    /\ refused' = Append(refused, IF Raises(scopes, dispatcher, m) THEN 1 ELSE 0)
    /\ got' = Append(got, << >>)

\* Connection.handle(packed_message): unpack, then dispatch through the
\* active dispatcher
handle(m) ==
    /\ Len(msgs) < MaxMsgs
    /\ Connection_dispatch(m)
    /\ UNCHANGED <<dispatcher, selVars, sVars, mVars, tVars, pVars>>

\* Connection.queue(condition), up to the yield
queue(condition) ==
    /\ Len(scopes) < MaxScopes
    /\ scopes' = Append(scopes, [st |-> "open", condition |-> condition,
                                 original |-> dispatcher, queue |-> << >>,
                                 idx |-> 0, peers |-> {}])
    /\ dispatcher' = Len(scopes) + 1
    /\ UNCHANGED <<msgs, handled, refused, got, selVars, sVars, mVars, tVars, pVars>>

\* MsgQueue.get(condition) returning in the body of scope s
get(s, condition) ==
    /\ scopes[s].st = "open"
    /\ GetIndex(scopes[s].queue, condition) # 0
    /\ LET k == GetIndex(scopes[s].queue, condition) IN
       /\ got' = [got EXCEPT ![scopes[s].queue[k]] = Append(@, s)]
       /\ scopes' = [scopes EXCEPT ![s].queue = pop(@, k)]
    /\ UNCHANGED <<dispatcher, msgs, handled, refused, selVars, sVars, mVars, tVars, pVars>>

\* One iteration of the loop of MsgQueue.flush, from the scopes sc: the entry
\* at idx is passed to the scope's original dispatcher; an exception ends
\* flush, and the finally clause of Connection.queue with it
Forward(s, sc) ==
    LET i == sc[s].queue[sc[s].idx]
        d == sc[s].original
    IN IF Raises(sc, d, msgs[i])
       THEN /\ scopes' = [sc EXCEPT ![s].st = "failed", ![s].peers = {}]
            /\ refused' = [refused EXCEPT ![i] = @ + 1]
            /\ UNCHANGED handled
       ELSE /\ scopes' = [Enqueued(sc, d, i, msgs[i]) EXCEPT ![s].idx = @ + 1]
            /\ handled' = [handled EXCEPT ![i] = IF Calls(sc, d, msgs[i]) THEN @ + 1 ELSE @]
            /\ UNCHANGED refused

\* The body of scope s ends, by returning, by raising or by a timeout of get:
\* in each case the finally clause of Connection.queue runs MsgQueue.flush,
\* here up to its first await of dispatch (with an empty queue, to the end).
\* While flush runs, peers holds the scopes whose body was running when the
\* body of s ended.
exit(s) ==
    /\ scopes[s].st = "open"
    /\ IF scopes[s].queue = << >>
       THEN /\ scopes' = [scopes EXCEPT ![s].st = "exited"]
            /\ dispatcher' = scopes[s].original
            /\ UNCHANGED <<handled, refused>>
       ELSE /\ Forward(s, [scopes EXCEPT ![s].st = "flushing", ![s].idx = 1,
                                         ![s].peers = OpenScopes \ {s}])
            /\ UNCHANGED dispatcher
    /\ UNCHANGED <<msgs, got, selVars, sVars, mVars, tVars, pVars>>

\* The loop of MsgQueue.flush resumes after an awaited dispatch and passes on
\* the next entry
flush_entry(s) ==
    /\ scopes[s].st = "flushing"
    /\ scopes[s].idx <= Len(scopes[s].queue)
    /\ Forward(s, scopes)
    /\ UNCHANGED <<dispatcher, msgs, got, selVars, sVars, mVars, tVars, pVars>>

\* The end of MsgQueue.flush and of the finally clause of Connection.queue
flush_end(s) ==
    /\ scopes[s].st = "flushing"
    /\ scopes[s].idx > Len(scopes[s].queue)
    /\ scopes' = [scopes EXCEPT ![s].st = "exited", ![s].queue = << >>,
                                ![s].idx = 0, ![s].peers = {}]
    /\ dispatcher' = scopes[s].original
    /\ UNCHANGED <<msgs, handled, refused, got, selVars, sVars, mVars, tVars, pVars>>

QNext ==
    \/ \E m \in Kinds : handle(m)
    \/ \E c \in Conditions : queue(c)
    \/ \E s \in DOMAIN scopes, c \in Conditions : get(s, c)
    \/ \E s \in DOMAIN scopes : exit(s)
    \/ \E s \in DOMAIN scopes : flush_entry(s)
    \/ \E s \in DOMAIN scopes : flush_end(s)

\* One connection: messages handled while queue scopes are entered and left
SpecQueue == Init /\ [][QNext]_vars

(***************************************************************************)
(* Sessions and sending (connection.py)                                    *)
(***************************************************************************)

\* Bound of the session model: the sessions in Connection._sessions at once
MaxSessions == 2

THREAD_ALL == "all"
ThreadIds == {"t1", "t2"}
\* ~thread.thid of a message: None when the message has no ~thread
Thids == ThreadIds \cup {None}

\* The ~transport decorator of an inbound message: absent, empty ({}), or with
\* a return_route; "missing" is a "thread" return route without
\* return_route_thread.
Decorators ==
    {[return_route |-> r, return_route_thread |-> None] :
        r \in {"absent", "empty", "all", "none"}}
    \cup {[return_route |-> "thread", return_route_thread |-> i] :
            i \in ThreadIds \cup {"", "missing"}}

\* return_route arguments of send_async
ReturnRoutes == {None, "all", "none"}

\* What the outbound transport function does when called: return nothing,
\* return a response body, or raise
Outcomes == {"none", "body", "raise"}

\* Session.update_thread_from_msg raises KeyError
update_raises(thread, dec) ==
    \/ dec.return_route = "absent" /\ thread # None
    \/ dec.return_route = "empty"
    \/ dec.return_route = "thread" /\ dec.return_route_thread = "missing"

update_thread_skipped(thread, dec) == thread

\* Session.update_thread_from_msg: the new Session._thread
update_thread_from_msg(thread, dec) ==
    IF dec.return_route = "all" THEN THREAD_ALL
    ELSE IF dec.return_route = "thread" THEN dec.return_route_thread
    ELSE IF dec.return_route = "none" THEN None
    ELSE thread

should_return_route_not_none(thread) == thread # None

\* Session.should_return_route: bool(self._thread)
should_return_route(thread) == thread # None /\ thread # ""

\* Session.thread_all
thread_all(thread) == thread = THREAD_ALL

\* The test send_to_session applies to each session
accepts(session_thread, thread) ==
    /\ should_return_route(session_thread)
    /\ session_thread = thread \/ thread_all(session_thread)

\* A Session object in Connection._sessions: whether the `with conn.session`
\* scope that created it is still active ("open") or has ended by an
\* exception ("leaked"), and its _thread.  Connection._sessions is the bag of
\* these; sessions in the same state are treated alike by every operation.
Session(st, thread) == [st |-> st, thread |-> thread]

\* The Session objects in Connection._sessions, without multiplicity
Members(ss) == BagToSet(ss)

\* Connection.session_open
session_open(ss) == Members(ss) # {}

\* The sessions whose send callback send_to_session awaits
Receivers(ss, thread) == {s \in Members(ss) : accepts(s.thread, thread)}

falls_through(sent) == FALSE

\* `if await self.send_to_session(...): return` in send_async
returns_after_session(sent) == sent

expects_any_response(return_route) == TRUE

\* `return_route is None or return_route == "none"` in send_async, negated
expects_response(return_route) == return_route \notin {None, "none"}

\* Connection.send_async on the sessions ss: the exception raised (or None),
\* whether pack returned, the sessions whose callback got the packed
\* message, whether the transport function was called, and what became of
\* its response.  out is what the transport function does.
send_async_result(ss, thid, return_route, plaintext, anoncrypt, out) ==
    LET hit == IF session_open(ss) THEN Receivers(ss, thid) ELSE {}
        r == [raised |-> None, packed |-> TRUE, to_sessions |-> hit,
              transported |-> FALSE, response |-> "none"]
    IN IF plaintext /\ anoncrypt
       THEN [r EXCEPT !.raised = "ValueError", !.packed = FALSE, !.to_sessions = {}]
       ELSE IF ~plaintext /\ ~target.recipients
       THEN [r EXCEPT !.raised = "RuntimeError", !.packed = FALSE, !.to_sessions = {}]
       ELSE IF session_open(ss) /\ returns_after_session(hit # {})
       THEN r
       ELSE IF ~target.endpoint
       THEN [r EXCEPT !.raised = "MessageDeliveryError"]
       ELSE IF out = "raise"
       THEN [r EXCEPT !.raised = "MessageDeliveryError", !.transported = TRUE]
       ELSE IF out = "body"
       THEN IF ~expects_response(return_route)
            THEN [r EXCEPT !.raised = "RuntimeError", !.transported = TRUE,
                           !.response = "unexpected"]
            ELSE [r EXCEPT !.transported = TRUE, !.response = "handled"]
       ELSE [r EXCEPT !.transported = TRUE]

\* Connection.send_to_session(message, thread) on the sessions ss
send_to_session_result(ss, thid) ==
    [raised |-> IF session_open(ss) THEN None ELSE "RuntimeError",
     packed |-> TRUE, to_sessions |-> Receivers(ss, thid),
     transported |-> FALSE, response |-> "none",
     sent |-> Receivers(ss, thid) # {}]

\* Connection.session(send), up to the yield
session ==
    /\ BagCardinality(sessions) < MaxSessions
    /\ sessions' = sessions (+) SetToBag({Session("open", None)})
    /\ sends' = << >>
    /\ UNCHANGED <<target, suspended, selVars, qVars, mVars, tVars, pVars>>

\* The body of `with conn.session(...)` ends normally: the session is removed
session_exit(s) ==
    /\ s.st = "open"
    /\ sessions' = sessions (-) SetToBag({s})
    /\ sends' = << >>
    /\ UNCHANGED <<target, suspended, selVars, qVars, mVars, tVars, pVars>>

\* The body of `with conn.session(...)` raises: the generator has no finally
\* clause, the session stays in Connection._sessions
session_raise(s) ==
    /\ s.st = "open"
    /\ sessions' = (sessions (-) SetToBag({s}))
                       (+) SetToBag({Session("leaked", s.thread)})
    /\ sends' = << >>
    /\ UNCHANGED <<target, suspended, selVars, qVars, mVars, tVars, pVars>>

\* Connection.send_async called by the application
send_async(thid, return_route, plaintext, anoncrypt, out) ==
    /\ sends' = <<[call |-> "send_async", session |-> << >>,
                   return_route_in |-> None, thread_in |-> None,
                   thid |-> thid,
                   return_route |-> return_route]
                  @@ send_async_result(sessions, thid, return_route,
                                       plaintext, anoncrypt, out)>>
    /\ UNCHANGED <<sessions, target, suspended, selVars, qVars, mVars, tVars, pVars>>

\* Connection.send_to_session called by the application
send_to_session(thid) ==
    /\ sends' = <<[call |-> "send_to_session", session |-> << >>,
                   return_route_in |-> None, thread_in |-> None,
                   thid |-> thid,
                   return_route |-> None]
                  @@ send_to_session_result(sessions, thid)>>
    /\ UNCHANGED <<sessions, target, suspended, selVars, qVars, mVars, tVars, pVars>>

\* Connection.handle(packed_message, session) in the body of session s: the
\* session's thread is updated from the message's ~transport decorator, then
\* the message is dispatched.  With reply, the registered handler answers with
\* send_async(msg) with no options, as the handler of
\* examples/return_route_server.py does; thid is the reply's ~thread.thid.
\* When update_thread_from_msg raises, nothing is dispatched.
handle_session(s, dec, reply, thid, out) ==
    /\ s.st = "open"
    /\ ~update_raises(s.thread, dec)
    /\ LET s2 == [s EXCEPT !.thread = update_thread_from_msg(s.thread, dec)]
           ss == (sessions (-) SetToBag({s})) (+) SetToBag({s2})
       IN /\ sessions' = ss
          /\ sends' = IF reply
                      THEN <<[call |-> "send_async", session |-> <<s2>>,
                              return_route_in |-> dec.return_route,
                              thread_in |-> dec.return_route_thread,
                              thid |-> thid, return_route |-> None]
                             @@ send_async_result(ss, thid, None, FALSE, FALSE, out)>>
                      ELSE << >>
    /\ UNCHANGED <<target, suspended, selVars, qVars, mVars, tVars, pVars>>

\* Connection.handle(packed_message, session) in the body of session s when
\* update_thread_from_msg raises KeyError at msg["~transport"],
\* transport["return_route"] or transport["return_route_thread"]: the
\* session keeps its thread and the message is not dispatched
handle_session_raise(s, dec) ==
    /\ s.st = "open"
    /\ update_raises(s.thread, dec)
    /\ sends' = <<[call |-> "handle", session |-> <<s>>,
                   return_route_in |-> dec.return_route,
                   thread_in |-> dec.return_route_thread,
                   thid |-> None, return_route |-> None,
                   raised |-> KeyError, packed |-> FALSE, to_sessions |-> {},
                   transported |-> FALSE, response |-> "none"]>>
    /\ UNCHANGED <<sessions, target, suspended, selVars, qVars, mVars, tVars, pVars>>

SessInit ==
    /\ SelInit
    /\ QInit
    /\ sessions = EmptyBag
    /\ target \in [recipients : BOOLEAN, endpoint : BOOLEAN]
    /\ sends = << >>
    /\ suspended = << >>
    /\ MInit
    /\ TInit
    /\ PInit

SessNext ==
    \/ session
    \/ \E s \in Members(sessions) : session_exit(s)
    \/ \E s \in Members(sessions) : session_raise(s)
    \/ \E thid \in Thids, rr \in ReturnRoutes, p, a \in BOOLEAN, out \in Outcomes :
            send_async(thid, rr, p, a, out)
    \/ \E thid \in Thids : send_to_session(thid)
    \/ \E s \in Members(sessions), dec \in Decorators :
            handle_session(s, dec, FALSE, None, "none")
    \/ \E s \in Members(sessions), dec \in Decorators, thid \in Thids,
          out \in Outcomes :
            handle_session(s, dec, TRUE, thid, out)
    \/ \E s \in Members(sessions), dec \in Decorators :
            handle_session_raise(s, dec)

\* One connection: sessions opened and closed, messages handled over them,
\* messages sent
SpecSession == SessInit /\ [][SessNext]_vars

(***************************************************************************)
(* send_to_session with send callbacks that suspend.  Here the Session     *)
(* objects carry their session_id, by which they hash and compare.         *)
(***************************************************************************)

\* Session.session_id: a uuid4, new for every Session
SessionIds == 1 .. (MaxSessions + 1)

ids(S) == {s.session_id : s \in S}

\* The Session objects a suspended send_to_session call has met
met ==
    IF suspended = << >> THEN {}
    ELSE suspended[1].initial \cup suspended[1].pending
             \cup suspended[1].to_sessions

\* Connection.session(send), up to the yield; id is the new Session's
\* session_id
session_with_id(id) ==
    /\ BagCardinality(sessions) < MaxSessions
    /\ id \notin ids(Members(sessions) \cup met)
    /\ sessions' = sessions (+) SetToBag({[st |-> "open", thread |-> None,
                                           session_id |-> id]})
    /\ sends' = << >>
    /\ UNCHANGED <<target, suspended, selVars, qVars, mVars, tVars, pVars>>

\* send_to_session has ended: by raising, or by returning sent
returned(thid, initial, to_sessions, raised) ==
    [call |-> "send_to_session", session |-> << >>,
     return_route_in |-> None, thread_in |-> None, thid |-> thid,
     return_route |-> None, raised |-> raised, packed |-> TRUE,
     to_sessions |-> to_sessions, transported |-> FALSE, response |-> "none",
     sent |-> to_sessions # {}, initial |-> initial]

\* The loop `for session in self._sessions` of send_to_session from the
\* iterator's next step, with the sessions in pending still to come, in any
\* order: sessions that do not match are passed over; at the first that
\* matches its send callback is called and awaited, and the call is
\* suspended.  After the last session the call returns.
iterate(thid, si_used, initial, to_sessions, pending) ==
    LET matching == {s \in pending : accepts(s.thread, thid)}
    IN  IF matching = {}
        THEN /\ sends' = <<returned(thid, initial, to_sessions, None)>>
             /\ suspended' = << >>
        ELSE \E s \in matching :
                /\ sends' = << >>
                /\ suspended' = <<[thid |-> thid, si_used |-> si_used,
                                   initial |-> initial, at |-> s,
                                   to_sessions |-> to_sessions \cup {s},
                                   pending |-> pending \ {s},
                                   members |-> Members(sessions)]>>

\* Connection.send_to_session(message, thread) called by the application,
\* up to its first await or, when no session matches, its return.  The set
\* iterator remembers the set's size (si_used).
send_to_session_call(thid) ==
    /\ suspended = << >>
    /\ IF ~session_open(sessions)
       THEN /\ sends' = <<returned(thid, {}, {}, "RuntimeError")>>
            /\ suspended' = << >>
       ELSE iterate(thid, BagCardinality(sessions), Members(sessions), {},
                    Members(sessions))
    /\ UNCHANGED <<sessions, target, selVars, qVars, mVars, tVars, pVars>>

\* The send callback awaited by send_to_session returns and the loop takes
\* its next step.  The set iterator raises RuntimeError ("Set changed size
\* during iteration") when the set's size is not the one it remembers.  When
\* the size is the same but sessions were added and removed, the table may
\* have been rebuilt, and the iterator goes on over any of the set's members.
send_to_session_resume ==
    /\ suspended # << >>
    /\ LET f == suspended[1]
       IN  IF BagCardinality(sessions) # f.si_used
           THEN /\ sends' = <<returned(f.thid, f.initial, f.to_sessions,
                                       "RuntimeError")>>
                /\ suspended' = << >>
           ELSE \E pending \in (IF Members(sessions) = f.members
                                 THEN {f.pending}
                                 ELSE SUBSET Members(sessions)) :
                    iterate(f.thid, f.si_used, f.initial, f.to_sessions,
                            pending)
    /\ UNCHANGED <<sessions, target, selVars, qVars, mVars, tVars, pVars>>

SuspendNext ==
    \/ \E id \in SessionIds : session_with_id(id)
    \/ \E s \in Members(sessions) : session_exit(s)
    \/ \E s \in Members(sessions), dec \in Decorators :
            /\ suspended = << >>
            /\ handle_session(s, dec, FALSE, None, "none")
    \/ \E thid \in Thids : send_to_session_call(thid)
    \/ send_to_session_resume

\* One connection whose sessions' send callbacks suspend: sessions are opened
\* and closed while a send_to_session call is suspended; messages are handled
\* over the sessions between the calls
SpecSuspend == Init /\ [][SuspendNext]_vars

(***************************************************************************)
(* Sending over the transport function and its response (connection.py)    *)
(***************************************************************************)

\* The types of the messages in response bodies: one with a registered
\* handler, matched by predicate P1, and one without handler
ResponseKinds == {"a", "d"}

response_dropped(response) == FALSE

\* `await self.handle(response)` at the end of send_async
response_handled(response) == response = "handled"

\* Connection.send_async(msg, return_route=...) on a connection without
\* sessions: out is what the transport function does, m the type of the
\* message in the response body it returns
send_async_response(return_route, out, m) ==
    /\ Len(msgs) < MaxMsgs
    /\ sessions = EmptyBag
    /\ LET r == send_async_result(sessions, None, return_route, FALSE, FALSE, out)
       IN /\ sends' = <<[call |-> "send_async", session |-> << >>,
                         return_route_in |-> None, thread_in |-> None,
                         thid |-> None, return_route |-> return_route]
                        @@ r>>
          /\ IF response_handled(r.response)
             THEN Connection_dispatch(m)
             ELSE UNCHANGED <<scopes, msgs, handled, refused, got>>
    /\ UNCHANGED <<dispatcher, sessions, target, suspended, selVars, mVars, tVars, pVars>>

SendInit ==
    /\ SelInit
    /\ QInit
    /\ sessions = EmptyBag
    /\ target = [recipients |-> TRUE, endpoint |-> TRUE]
    /\ sends = << >>
    /\ suspended = << >>
    /\ MInit
    /\ TInit
    /\ PInit

SendNext ==
    \/ \E rr \in ReturnRoutes, m \in ResponseKinds :
            send_async_response(rr, "body", m)
    \/ \E rr \in ReturnRoutes, out \in Outcomes \ {"body"} :
            send_async_response(rr, out, "a")
    \/ \E c \in {None, "a"} : queue(c)
    \/ \E s \in DOMAIN scopes : exit(s)
    \/ \E s \in DOMAIN scopes : flush_entry(s)
    \/ \E s \in DOMAIN scopes : flush_end(s)

\* One connection with an endpoint: messages sent over the transport
\* function and its responses handled, while queue scopes are entered and
\* left
SpecSend == SendInit /\ [][SendNext]_vars

(***************************************************************************)
(* MsgQueue.get called by concurrent tasks (queue_dispatcher.py)           *)
(***************************************************************************)

\* Bound: the tasks that call MsgQueue.get
MaxWaiters == 2

\* The tasks run on one asyncio event loop: a task runs until it suspends
\* (in Condition.wait) or ends.  `async with self._cond` suspends nobody
\* while the lock is free, and the lock is free whenever a task is scheduled.
\* A task is "ready" when it was created or woken by notify_all and has not
\* run yet, "waiting" in Condition.wait, "looping" when it goes round the
\* `while True` loop of _get without suspending, "returned" when _get has
\* returned an entry, "timeout" when wait_for has raised TimeoutError.
Pending == {"ready", "waiting", "looping"}
Ended == {"returned", "timeout"}

\* A task in the loop of _get that never suspends keeps the event loop: no
\* other task and no timeout callback runs
LoopHeld == \E t \in DOMAIN tasks : tasks[t].pc = "looping"

\* MsgQueue._get of task t from the top of its loop up to the next
\* suspension or return: with an empty queue it waits; with no condition it
\* pops the last entry; with a condition it pops the first matching entry,
\* and with no matching entry it starts the loop again at once
_get(t) ==
    LET k == GetIndex(_queue, tasks[t].condition) IN
    IF _queue = << >>
    THEN /\ tasks' = [tasks EXCEPT ![t].pc = "waiting"]
         /\ UNCHANGED _queue
    ELSE IF k # 0
    THEN /\ tasks' = [tasks EXCEPT ![t].pc = "returned", ![t].result = _queue[k]]
         /\ _queue' = pop(_queue, k)
    ELSE /\ tasks' = [tasks EXCEPT ![t].pc = "looping", ![t].iter = 1 - @]
         /\ UNCHANGED _queue

\* A task calls MsgQueue.get(condition, timeout=...): wait_for makes _get a
\* task of its own, which is ready to run
MsgQueue_get(condition) ==
    /\ ~LoopHeld
    /\ Len(tasks) < MaxWaiters
    /\ tasks' = Append(tasks, [pc |-> "ready", condition |-> condition,
                               result |-> 0, expired |-> FALSE, iter |-> 0])
    /\ UNCHANGED <<_queue, qVars, selVars, sVars, tVars, pVars>>

\* MsgQueue.put(msg) on a queue without condition: append and notify_all
MsgQueue_put(m) ==
    /\ ~LoopHeld
    /\ Len(msgs) < MaxMsgs
    /\ msgs' = Append(msgs, m)
    /\ _queue' = Append(_queue, Len(msgs) + 1)
    /\ tasks' = [t \in DOMAIN tasks |->
                    IF tasks[t].pc = "waiting"
                    THEN [tasks[t] EXCEPT !.pc = "ready"] ELSE tasks[t]]
    /\ UNCHANGED <<dispatcher, scopes, handled, refused, got, selVars, sVars, tVars, pVars>>

\* The event loop runs a ready task: _get starts, or Condition.wait returns
\* and _get goes on
_get_resume(t) ==
    /\ ~LoopHeld
    /\ tasks[t].pc = "ready"
    /\ _get(t)
    /\ UNCHANGED <<qVars, selVars, sVars, tVars, pVars>>

\* One more iteration of the loop of _get by the task that keeps the event loop
_get_loop(t) ==
    /\ tasks[t].pc = "looping"
    /\ _get(t)
    /\ UNCHANGED <<qVars, selVars, sVars, tVars, pVars>>

\* The deadline of the wait_for of task t passes
deadline(t) ==
    /\ tasks[t].pc \in Pending
    /\ ~tasks[t].expired
    /\ tasks' = [tasks EXCEPT ![t].expired = TRUE]
    /\ UNCHANGED <<_queue, qVars, selVars, sVars, tVars, pVars>>

\* The event loop runs the timeout callback of wait_for: the suspended _get
\* is cancelled and get raises TimeoutError
wait_for_timeout(t) ==
    /\ ~LoopHeld
    /\ tasks[t].expired
    /\ tasks[t].pc \in {"ready", "waiting"}
    /\ tasks' = [tasks EXCEPT ![t].pc = "timeout"]
    /\ UNCHANGED <<_queue, qVars, selVars, sVars, tVars, pVars>>

MNext ==
    \/ \E c \in Conditions : MsgQueue_get(c)
    \/ \E m \in Kinds : MsgQueue_put(m)
    \/ \E t \in DOMAIN tasks : _get_resume(t)
    \/ \E t \in DOMAIN tasks : _get_loop(t)
    \/ \E t \in DOMAIN tasks : deadline(t)
    \/ \E t \in DOMAIN tasks : wait_for_timeout(t)

\* One MsgQueue: tasks call get, messages are put, deadlines pass
SpecMsgQueue == Init /\ [][MNext]_vars

\* The event loop runs every task that is ready and every timeout callback
\* that is due, and a task that does not suspend goes on running
FairMsgQueue ==
    /\ SpecMsgQueue
    /\ \A t \in 1..MaxWaiters :
          /\ WF_vars(t \in DOMAIN tasks /\ _get_resume(t))
          /\ WF_vars(t \in DOMAIN tasks /\ _get_loop(t))
          /\ WF_vars(t \in DOMAIN tasks /\ wait_for_timeout(t))

(***************************************************************************)
(* MessageTrustContext (mtc.py)                                            *)
(***************************************************************************)

\* The flags of Context that the presets use; a set of flags stands for
\* their bitwise or, Context.NONE is {}.  The other flags of Context are
\* treated by every operation as these are.
Context == {"DESERIALIZE_OK", "CONFIDENTIALITY", "INTEGRITY",
            "AUTHENTICATED_ORIGIN", "NONREPUDIATION"}

AUTHCRYPT_AFFIRMED == {"CONFIDENTIALITY", "INTEGRITY", "DESERIALIZE_OK",
                       "AUTHENTICATED_ORIGIN"}
AUTHCRYPT_DENIED == {"NONREPUDIATION"}
ANONCRYPT_AFFIRMED == {"CONFIDENTIALITY", "INTEGRITY", "DESERIALIZE_OK"}
ANONCRYPT_DENIED == {"NONREPUDIATION", "AUTHENTICATED_ORIGIN"}
PLAINTEXT_AFFIRMED == {"DESERIALIZE_OK"}
PLAINTEXT_DENIED == {"CONFIDENTIALITY", "INTEGRITY", "AUTHENTICATED_ORIGIN"}

\* The values assigned by mtc[context] = value
Values == {"True", "False", "None"}

and_not_skipped(flags, context) == flags

\* flags &= ~context
and_not(flags, context) == flags \ context

\* The verkeys an AdditionalData names: the sender's and the recipient's
Verkeys == {"vkA", "vkB"}

\* MessageTrustContext(affirmed, denied): after the call mtc holds the
\* arguments and a fresh AdditionalData(); with overlapping arguments
\* ContextsConflict is raised and no object exists
MessageTrustContext(affirmed, denied) ==
    /\ mtc' = [affirmed |-> affirmed, denied |-> denied,
               sender |-> None, recipient |-> None,
               raised |-> IF affirmed \cap denied # {}
                          THEN "ContextsConflict" ELSE None,
               op |-> "__init__"]
    /\ UNCHANGED <<selVars, qVars, sVars, mVars, pVars>>

\* MessageTrustContext.__getitem__(context) on the object m: True when every
\* flag of context is affirmed, else False when every flag is denied, else
\* None
__getitem__(m, context) ==
    IF m.affirmed \cap context = context THEN "True"
    ELSE IF m.denied \cap context = context THEN "False"
    ELSE "None"

\* MessageTrustContext.__setitem__(context, value)
__setitem__(context, value) ==
    /\ mtc.raised = None
    /\ mtc' = IF value = "None"
              THEN [mtc EXCEPT !.affirmed = and_not(@, context),
                               !.op = "__setitem__"]
              ELSE IF value = "True"
              THEN [mtc EXCEPT !.affirmed = @ \cup context,
                               !.denied = and_not(@, context),
                               !.op = "__setitem__"]
              ELSE [mtc EXCEPT !.denied = @ \cup context,
                               !.affirmed = and_not(@, context),
                               !.op = "__setitem__"]
    /\ UNCHANGED <<selVars, qVars, sVars, mVars, pVars>>

\* The object m after m.set_authcrypted(sender, recipient)
mtc_authcrypted(m, sender, recipient) ==
    [m EXCEPT !.affirmed = AUTHCRYPT_AFFIRMED, !.denied = AUTHCRYPT_DENIED,
              !.sender = sender, !.recipient = recipient,
              !.op = "set_authcrypted"]

mtc_anoncrypted_keeps_sender(m, recipient) ==
    [m EXCEPT !.affirmed = ANONCRYPT_AFFIRMED, !.denied = ANONCRYPT_DENIED,
              !.recipient = recipient, !.op = "set_anoncrypted"]

\* The object m after m.set_anoncrypted(recipient)
mtc_anoncrypted(m, recipient) ==
    [m EXCEPT !.affirmed = ANONCRYPT_AFFIRMED, !.denied = ANONCRYPT_DENIED,
              !.sender = None, !.recipient = recipient,
              !.op = "set_anoncrypted"]

\* The object m after m.set_plaintext()
mtc_plaintext(m) ==
    [m EXCEPT !.affirmed = PLAINTEXT_AFFIRMED, !.denied = PLAINTEXT_DENIED,
              !.sender = None, !.recipient = None,
              !.op = "set_plaintext"]

\* MessageTrustContext.set_authcrypted
set_authcrypted(sender, recipient) ==
    /\ mtc.raised = None
    /\ mtc' = mtc_authcrypted(mtc, sender, recipient)
    /\ UNCHANGED <<selVars, qVars, sVars, mVars, pVars>>

\* MessageTrustContext.set_anoncrypted
set_anoncrypted(recipient) ==
    /\ mtc.raised = None
    /\ mtc' = mtc_anoncrypted(mtc, recipient)
    /\ UNCHANGED <<selVars, qVars, sVars, mVars, pVars>>

\* MessageTrustContext.set_plaintext
set_plaintext ==
    /\ mtc.raised = None
    /\ mtc' = mtc_plaintext(mtc)
    /\ UNCHANGED <<selVars, qVars, sVars, mVars, pVars>>

\* MessageTrustContext.is_authcrypted
is_authcrypted(m) ==
    /\ __getitem__(m, AUTHCRYPT_AFFIRMED) = "True"
    /\ __getitem__(m, AUTHCRYPT_DENIED) = "False"

\* MessageTrustContext.is_anoncrypted
is_anoncrypted(m) ==
    /\ __getitem__(m, ANONCRYPT_AFFIRMED) = "True"
    /\ __getitem__(m, ANONCRYPT_DENIED) = "False"

\* MessageTrustContext.is_plaintext
is_plaintext(m) ==
    /\ __getitem__(m, PLAINTEXT_AFFIRMED) = "True"
    /\ __getitem__(m, PLAINTEXT_DENIED) = "False"

TNext ==
    \/ \E affirmed, denied \in SUBSET Context : MessageTrustContext(affirmed, denied)
    \/ \E context \in SUBSET Context, value \in Values : __setitem__(context, value)
    \/ \E sender, recipient \in Verkeys : set_authcrypted(sender, recipient)
    \/ \E recipient \in Verkeys : set_anoncrypted(recipient)
    \/ set_plaintext

\* One trust context: constructor calls, item assignments and presets
SpecTrust == Init /\ [][TNext]_vars

(***************************************************************************)
(* Connection.pack and Connection.unpack (connection.py), Message          *)
(* serialization (message.py), forward messages (utils.py), over the       *)
(* envelopes of the crypto layer                                           *)
(***************************************************************************)

\* Bound of the pack model: the longest list of routing keys
MaxRouting == 2

\* The verkeys (bytes) of a third party and of the mediators
Carol == "vkC"
Mediators == {"vkR1", "vkR2", "vkR3"}
KeyBytes == {Alice, Bob, Carol} \cup Mediators

\* crypto.bytes_to_b58: the Base58 string of a key
bytes_to_b58(key) ==
    [vkA |-> "b58A", vkB |-> "b58B", vkC |-> "b58C",
     vkR1 |-> "b58R1", vkR2 |-> "b58R2", vkR3 |-> "b58R3"][key]

\* utils.ensure_key_b58: bytes are encoded, a string is taken as it is
ensure_key_b58(key) == IF key \in KeyBytes THEN bytes_to_b58(key) ELSE key

\* utils.FORWARD and the type of the messages that are packed
FORWARD == "https://didcomm.org/routing/1.0/forward"
NAME == "doc;protocol/1.0/name"

\* The type strings that MsgType accepts, among those used here
ValidTypes == {FORWARD, NAME}

\* A field that a message or a JSON object does not have; None is a field
\* whose value is None (null in JSON)
Absent == "absent"

\* The values uuid4 returns
Uuids == {"uuid-1"}

\* A Message: type and id are its fields @type and @id; x, to and msg are
\* extra fields (Extra.allow).  msg holds a packed message (a dict) or
\* nothing.  A JSON object parsed from a message has the same shape.
Message(type, id, x, to, msg) ==
    [type |-> type, id |-> id, x |-> x, to |-> to, msg |-> msg]

\* The messages that are packed: with no extra field, with an extra field
\* and with an extra field whose value is None
PackMsgs == {Message(NAME, "id-1", x, Absent, << >>) : x \in {Absent, None, "v"}}

\* A str holding the JSON text of the object obj; str.encode("ascii") of it;
\* text that is not JSON holds no object
json_dumps(obj) == [text |-> <<obj>>]
encode(str) == [ascii |-> TRUE, text |-> str.text]
NotJson == [text |-> << >>]
isinstance_bytes(value) == "ascii" \in DOMAIN value

\* Message.serialize: json(by_alias=True, exclude_none=True) leaves out the
\* fields whose value is None
serialize(msg) ==
    json_dumps([msg EXCEPT !.x = IF @ = None THEN Absent ELSE @,
                           !.to = IF @ = None THEN Absent ELSE @])

\* Message.deserialize (parse_raw): the text has to be a JSON object with a
\* valid @type; an absent @id is filled in by uuid4
deserialize(serialized, uuid) ==
    IF serialized.text = << >>
    THEN [raised |-> "ValidationError", msg |-> << >>]
    ELSE LET obj == serialized.text[1]
         IN  IF "type" \notin DOMAIN obj
             THEN [raised |-> "ValidationError", msg |-> << >>]
             ELSE IF obj.type \notin ValidTypes
             THEN [raised |-> "ValidationError", msg |-> << >>]
             ELSE [raised |-> None,
                   msg |-> <<[obj EXCEPT !.id = IF @ = Absent THEN uuid ELSE @]>>]

\* crypto.pack_message(message, to_verkeys, from_verkey, from_sigkey): an
\* envelope that names its recipients; the message, and the sender's verkey
\* when from_verkey is given (authcrypt), are in the ciphertext, which only
\* unpack_message with a recipient's keys reads
pack_message(message, to_verkeys, from_verkey) ==
    [protected |-> [alg |-> IF from_verkey = << >> THEN "Anoncrypt" ELSE "Authcrypt",
                    recipients |-> {bytes_to_b58(k) : k \in Range(to_verkeys)}],
     ciphertext |-> [message |-> message,
                     sender |-> IF from_verkey = << >> THEN None
                                ELSE bytes_to_b58(from_verkey[1])]]

\* crypto.unpack_message(enc_message, my_verkey, my_sigkey): fails on input
\* that is not an envelope and on an envelope that does not name my_verkey;
\* else the message, the sender's verkey if there is one, and my_verkey
unpack_message(enc_message, my_verkey) ==
    LET failed(e) == [raised |-> e, message |-> << >>,
                      sender_vk |-> None, recip_vk |-> None]
    IN  IF isinstance_bytes(enc_message) /\ enc_message.text = << >>
        THEN failed("ValueError")
        ELSE LET obj == IF isinstance_bytes(enc_message)
                        THEN enc_message.text[1] ELSE enc_message
             IN  IF "protected" \notin DOMAIN obj
                 THEN failed("KeyError")
                 ELSE IF bytes_to_b58(my_verkey) \notin obj.protected.recipients
                 THEN failed("ValueError")
                 ELSE [raised |-> None,
                       message |-> <<obj.ciphertext.message>>,
                       sender_vk |-> obj.ciphertext.sender,
                       recip_vk |-> bytes_to_b58(my_verkey)]

\* utils.forward_msg
forward_msg(to, msg, uuid) ==
    Message(FORWARD, uuid, Absent, ensure_key_b58(to), <<msg>>)

RECURSIVE forward_loop_same_to(_, _, _, _, _)
forward_loop_same_to(packed_message, forward_to, routing_keys, i, uuid) ==
    IF i > Len(routing_keys) THEN packed_message
    ELSE forward_loop_same_to(
             pack_message(serialize(forward_msg(forward_to, packed_message, uuid)),
                          <<routing_keys[i]>>, << >>),
             forward_to, routing_keys, i + 1, uuid)

\* The loop of Connection.pack over target.routing_keys, from the i-th key
RECURSIVE forward_loop(_, _, _, _, _)
forward_loop(packed_message, forward_to, routing_keys, i, uuid) ==
    IF i > Len(routing_keys) THEN packed_message
    ELSE forward_loop(
             pack_message(serialize(forward_msg(forward_to, packed_message, uuid)),
                          <<routing_keys[i]>>, << >>),
             routing_keys[i], routing_keys, i + 1, uuid)

authcrypt_when_anoncrypt(anoncrypt) == FALSE

\* `if anoncrypt:` in Connection.pack
pack_anoncrypt(anoncrypt) == anoncrypt

\* Connection.pack: the exception raised, or the bytes returned
pack_result(self, msg, anoncrypt, plaintext, uuid) ==
    IF plaintext /\ anoncrypt
    THEN [raised |-> "ValueError", out |-> << >>]
    ELSE IF plaintext
    THEN [raised |-> None, out |-> <<encode(serialize(msg))>>]
    ELSE IF targets[self].recipients = << >>
    THEN [raised |-> "RuntimeError", out |-> << >>]
    ELSE LET packed_message ==
                 pack_message(serialize(msg), targets[self].recipients,
                              IF pack_anoncrypt(anoncrypt) THEN << >> ELSE <<self>>)
         IN  [raised |-> None,
              out |-> <<encode(json_dumps(
                          forward_loop(packed_message,
                                       targets[self].recipients[1],
                                       targets[self].routing_keys, 1, uuid)))>>]

\* MessageTrustContext(): the trust context of a message just deserialized
NewMTC ==
    [affirmed |-> {}, denied |-> {}, sender |-> None, recipient |-> None,
     raised |-> None, op |-> "__init__"]

sender_vk_ignored(sender_vk) == TRUE

\* `if sender_vk:` in Connection.unpack
sender_vk_given(sender_vk) == sender_vk # None

\* Connection.unpack: the exception raised, or the message returned and its
\* trust context
unpack_result(self, packed_message, uuid) ==
    LET r == unpack_message(packed_message, self)
        d == IF r.raised = None THEN deserialize(r.message[1], uuid)
             ELSE [raised |-> r.raised, msg |-> << >>]
        raise(e) == [raised |-> e, msg |-> << >>, mtc |-> NewMTC]
    IN  IF d.raised = None
        THEN [raised |-> None, msg |-> d.msg,
              mtc |-> IF sender_vk_given(r.sender_vk)
                      THEN mtc_authcrypted(NewMTC, r.sender_vk, r.recip_vk)
                      ELSE mtc_anoncrypted(NewMTC, r.recip_vk)]
        ELSE IF ~isinstance_bytes(packed_message)
        THEN raise("TypeError")
        ELSE LET p == deserialize(packed_message, uuid)
             IN  IF p.raised # None THEN raise(p.raised)
                 ELSE [raised |-> None, msg |-> p.msg,
                       mtc |-> mtc_plaintext(NewMTC)]

\* The lists given to Target.update
RecipientLists == {<<Bob>>, <<Bob, Carol>>, <<Carol>>}
RoutingLists == UNION {[1..n -> Mediators] : n \in 1..MaxRouting}

\* Alice.target.update(recipients=..., routing_keys=...); << >> stands for
\* an argument that is not given
update(recipients, routing_keys) ==
    /\ recipients # << >> \/ routing_keys # << >>
    /\ targets' = [targets EXCEPT ![Alice] =
           [recipients |-> IF recipients # << >> THEN recipients
                           ELSE @.recipients,
            routing_keys |-> IF routing_keys # << >> THEN routing_keys
                             ELSE @.routing_keys]]
    /\ packed' = NoCall
    /\ unpacked' = NoCall
    /\ UNCHANGED <<compared, derived, nVars, selVars, qVars, sVars, mVars, tVars>>

\* self.pack(msg, anoncrypt, plaintext)
pack(self, msg, anoncrypt, plaintext, uuid) ==
    /\ packed' = [call |-> "pack", self |-> self, msg |-> msg,
                  anoncrypt |-> anoncrypt, plaintext |-> plaintext]
                 @@ pack_result(self, msg, anoncrypt, plaintext, uuid)
    /\ unpacked' = NoCall
    /\ UNCHANGED <<targets, compared, derived, nVars, selVars, qVars, sVars, mVars, tVars>>

\* The record of self.unpack(input); opened lists the connections that
\* unpacked the layers so far, the outermost first
Unpacked(self, of, opened, input, uuid) ==
    [call |-> "unpack", self |-> self, of |-> of, opened |-> opened,
     input |-> <<input>>] @@ unpack_result(self, input, uuid)

\* self.unpack(packed_message), packed_message being what pack returned
unpack(self, uuid) ==
    /\ packed.call = "pack"
    /\ packed.raised = None
    /\ unpacked' = Unpacked(self, "pack", <<self>>, packed.out[1], uuid)
    /\ UNCHANGED <<targets, packed, compared, derived, nVars, selVars, qVars, sVars, mVars, tVars>>

\* self.unpack(msg["msg"]), msg being the forward message unpacked last
unpack_msg(self, uuid) ==
    /\ unpacked.call = "unpack"
    /\ unpacked.raised = None
    /\ unpacked.msg[1].msg # << >>
    /\ unpacked' = Unpacked(self, unpacked.of, Append(unpacked.opened, self),
                            unpacked.msg[1].msg[1], uuid)
    /\ UNCHANGED <<targets, packed, compared, derived, nVars, selVars, qVars, sVars, mVars, tVars>>

\* Input that did not come from pack: bytes that are not JSON, a message in
\* plain JSON without @id, the same as a dict, and envelopes made by Carol
\* for Bob around a message and around text that is not a message
Inputs ==
    LET plain == Message(NAME, Absent, None, Absent, << >>)
    IN  {encode(NotJson), encode(json_dumps(plain)), plain,
         pack_message(serialize(Message(NAME, "id-2", Absent, Absent, << >>)),
                      <<Bob>>, <<Carol>>),
         encode(json_dumps(pack_message(NotJson, <<Bob>>, <<Carol>>))),
         pack_message(NotJson, <<Bob>>, << >>)}

\* self.unpack(input)
unpack_input(self, input, uuid) ==
    /\ unpacked' = Unpacked(self, "input", <<self>>, input, uuid)
    /\ packed' = NoCall
    /\ UNCHANGED <<targets, compared, derived, nVars, selVars, qVars, sVars, mVars, tVars>>

\* Alice and Bob, each made by Connection.from_parts with the other's verkey
\* or by Connection.receiver
PackInit ==
    /\ SelInit /\ QInit /\ SInit /\ MInit /\ TInit
    /\ targets \in [{Alice, Bob} -> {NoTarget, Target(Alice), Target(Bob)}]
    /\ targets[Alice] \in {NoTarget, Target(Bob)}
    /\ targets[Bob] \in {NoTarget, Target(Alice)}
    /\ packed = NoCall
    /\ unpacked = NoCall
    /\ compared = << >>
    /\ derived = << >>
    /\ _next = << >>
    /\ futures = << >>
    /\ received = << >>

PackNext ==
    \/ \E recipients \in RecipientLists \cup {<< >>},
          routing_keys \in RoutingLists \cup {<< >>} :
           update(recipients, routing_keys)
    \/ \E self \in {Alice, Bob}, msg \in PackMsgs,
          anoncrypt, plaintext \in BOOLEAN, uuid \in Uuids :
           pack(self, msg, anoncrypt, plaintext, uuid)
    \/ \E self \in KeyBytes, uuid \in Uuids : unpack(self, uuid)
    \/ \E self \in KeyBytes, uuid \in Uuids : unpack_msg(self, uuid)
    \/ \E self \in KeyBytes, input \in Inputs, uuid \in Uuids :
           unpack_input(self, input, uuid)

\* Packing by Alice and Bob, unpacking by every key holder
SpecPack == PackInit /\ [][PackNext]_vars

(***************************************************************************)
(* Messages made from messages: Message.with_transport, Message.with_thread *)
(* (message.py) and the message that Connection.send_async packs           *)
(***************************************************************************)

\* The messages a caller holds: those of PackMsgs, and such with a ~thread
\* or a ~transport decorator already
HeldMsgs ==
    PackMsgs
    \cup {("~thread" :> [thid |-> t]) @@ m : m \in PackMsgs, t \in {"t1"}}
    \cup {("~transport" :> [return_route |-> "none"]) @@ m : m \in PackMsgs}

\* The return_route arguments: not given, empty, and two routes
ReturnRouteArgs == {None, "", "all", "thread"}

\* `if return_route` in with_transport and in send_async
truthy(return_route) == return_route \notin {None, ""}

\* A call of a method of the message object self: the object after the call
\* and the message returned
MethodCall(self, result) == [self |-> self, result |-> result]

with_transport_in_place(self, return_route) ==
    LET new == ("~transport" :> IF truthy(return_route)
                                THEN [return_route |-> return_route]
                                ELSE << >>) @@ self
    IN  MethodCall(new, new)

\* Message.with_transport: a new message of the fields of self and the
\* ~transport decorator
with_transport(self, return_route) ==
    MethodCall(self, ("~transport" :> IF truthy(return_route)
                                    THEN [return_route |-> return_route]
                                    ELSE << >>) @@ self)

\* Message.with_thread: a new message of the fields of self and the ~thread
\* decorator
with_thread(self, thread) ==
    MethodCall(self, ("~thread" :> thread) @@ self)

\* msg.with_transport(return_route) called by the application
with_transport_call(msg, return_route) ==
    /\ derived' = <<[call |-> "with_transport", arg |-> msg,
                     return_route |-> return_route]
                    @@ with_transport(msg, return_route)>>
    /\ packed' = NoCall
    /\ unpacked' = NoCall
    /\ UNCHANGED <<targets, compared, nVars, selVars, qVars, sVars, mVars, tVars>>

\* msg.with_thread(thread) called by the application
with_thread_call(msg, thread) ==
    /\ derived' = <<[call |-> "with_thread", arg |-> msg, thread |-> thread]
                    @@ with_thread(msg, thread)>>
    /\ packed' = NoCall
    /\ unpacked' = NoCall
    /\ UNCHANGED <<targets, compared, nVars, selVars, qVars, sVars, mVars, tVars>>

\* self.send_async(msg, return_route=..., plaintext=..., anoncrypt=...) up
\* to the call of pack: with a return_route the local name msg is bound to
\* msg.with_transport(return_route=return_route), and that message is
\* packed
send_async_pack(self, msg, return_route, anoncrypt, plaintext, uuid) ==
    LET r == IF truthy(return_route) THEN with_transport(msg, return_route)
             ELSE MethodCall(msg, msg)
    IN  /\ derived' = <<[call |-> "send_async", arg |-> msg,
                         return_route |-> return_route] @@ r>>
        /\ packed' = [call |-> "pack", self |-> self, msg |-> r.result,
                      anoncrypt |-> anoncrypt, plaintext |-> plaintext]
                     @@ pack_result(self, r.result, anoncrypt, plaintext, uuid)
        /\ unpacked' = NoCall
        /\ UNCHANGED <<targets, compared, nVars, selVars, qVars, sVars, mVars, tVars>>

mtc_unchecked(msg_mtc, affirmed, denied) == None

\* _mtc_preprocessor of utils.mtc(affirmed, denied), on a message whose
\* trust context is msg_mtc: the exception it raises, or None
_mtc_preprocessor(msg_mtc, affirmed, denied) ==
    IF msg_mtc.affirmed # affirmed \/ msg_mtc.denied # denied
    THEN "InsufficientMessageTrust"
    ELSE None

\* _wrapped of utils.preprocess, for a handler decorated with
\* utils.authcrypted or utils.anoncrypted: the preprocessor is called and,
\* if it returns, the handler's body runs
_wrapped(decorator, msg_mtc) ==
    LET raised == IF decorator = "authcrypted"
                  THEN _mtc_preprocessor(msg_mtc, AUTHCRYPT_AFFIRMED,
                                         AUTHCRYPT_DENIED)
                  ELSE _mtc_preprocessor(msg_mtc, ANONCRYPT_AFFIRMED,
                                         ANONCRYPT_DENIED)
    IN  [decorator |-> decorator, raised |-> raised, ran |-> raised = None]

\* The message unpacked last is passed to a handler decorated with
\* utils.authcrypted or utils.anoncrypted
call_wrapped(decorator) ==
    /\ unpacked.call = "unpack"
    /\ unpacked.raised = None
    /\ "handler" \notin DOMAIN unpacked
    /\ unpacked' = ("handler" :> _wrapped(decorator, unpacked.mtc)) @@ unpacked
    /\ UNCHANGED <<targets, packed, compared, derived, nVars, selVars, qVars,
                   sVars, mVars, tVars>>

DeriveNext ==
    \/ \E msg \in HeldMsgs, return_route \in ReturnRouteArgs :
           with_transport_call(msg, return_route)
    \/ \E msg \in HeldMsgs, t \in ThreadIds :
           with_thread_call(msg, [thid |-> t])
    \/ \E self \in {Alice, Bob}, msg \in HeldMsgs,
          return_route \in ReturnRouteArgs, anoncrypt, plaintext \in BOOLEAN,
          uuid \in Uuids :
           send_async_pack(self, msg, return_route, anoncrypt, plaintext, uuid)
    \/ \E self \in KeyBytes, uuid \in Uuids : unpack(self, uuid)
    \/ \E decorator \in {"authcrypted", "anoncrypted"} :
           call_wrapped(decorator)

\* Alice and Bob, each with the other's verkey: messages made from
\* messages, messages sent with a return route and unpacked by the key
\* holders
SpecDerive == Init /\ [][DeriveNext]_vars

(***************************************************************************)
(* StaticConnection.next and StaticConnection.handle                       *)
(* (static_connection.py)                                                  *)
(***************************************************************************)

\* Bound: the calls of StaticConnection.next
MaxFutures == 2

\* The kinds of the messages handled
StaticKinds == {"a", "b"}

\* The condition that next selects, as the key of the dict: the callable
\* given as condition, or a function defined by this call of next
\* (_matches_type with a type_, _default with neither)
selected_condition(type_, condition, call) ==
    IF condition # None THEN [fn |-> condition, call |-> 0]
    ELSE IF type_ # None THEN [fn |-> "_matches_type", call |-> call]
    ELSE [fn |-> "_default", call |-> call]

\* The kinds of messages for which the selected condition is true: the
\* callable P1 and _matches_type are true of the kind "a"
satisfying(type_, condition) ==
    IF condition # None \/ type_ # None THEN {"a"} ELSE StaticKinds

\* dict[key] = value: a new key is added at the end, a key already there
\* keeps its place and gets the value
dict_set(dict, key, value) ==
    IF \E k \in DOMAIN dict : dict[k].key = key
    THEN [k \in DOMAIN dict |-> IF dict[k].key = key
                                 THEN [key |-> key, value |-> value]
                                 ELSE dict[k]]
    ELSE Append(dict, [key |-> key, value |-> value])

\* del dict[key], for a key that is there
dict_del(dict, key) ==
    LET k == CHOOSE j \in DOMAIN dict : dict[j].key = key
    IN  SubSeq(dict, 1, k - 1) \o SubSeq(dict, k + 1, Len(dict))

\* StaticConnection.next(type_, condition), up to the yield; with both
\* arguments ValueError is raised before anything is registered
next(type_, condition) ==
    /\ Len(futures) < MaxFutures
    /\ type_ = None \/ condition = None
    /\ LET call == Len(futures) + 1
           key == selected_condition(type_, condition, call)
       IN  /\ futures' = Append(futures,
                   [key |-> key, kinds |-> satisfying(type_, condition),
                    st |-> "pending", scope |-> "open"])
           /\ _next' = dict_set(_next, key, call)
    /\ UNCHANGED <<received, targets, packed, unpacked, compared, derived,
                   selVars, qVars, sVars, mVars, tVars>>

\* The entries of _next that the loop of handle passes before it returns:
\* the first whose condition is true of the message and whose future is
\* not done; 0 when there is none
first_waiting(dict, fs, m) ==
    LET hits == {k \in DOMAIN dict : /\ m \in fs[dict[k].value].kinds
                                     /\ fs[dict[k].value].st = "pending"}
    IN  IF hits = {} THEN 0
        ELSE CHOOSE k \in hits : \A j \in hits : k <= j

\* StaticConnection.handle(packed_message): the first future waiting for
\* the message gets it as its result and handle returns; with no such
\* future the message is dispatched
StaticConnection_handle(m) ==
    /\ Len(received) < MaxMsgs
    /\ LET k == first_waiting(_next, futures, m)
       IN  IF k = 0
           THEN /\ received' = Append(received,
                        [msg |-> m, resolved |-> {}, dispatched |-> TRUE])
                /\ UNCHANGED futures
           ELSE /\ received' = Append(received,
                        [msg |-> m, resolved |-> {_next[k].value},
                         dispatched |-> FALSE])
                /\ futures' = [futures EXCEPT ![_next[k].value].st = "result"]
    /\ UNCHANGED <<_next, targets, packed, unpacked, compared, derived,
                   selVars, qVars, sVars, mVars, tVars>>

\* asyncio.wait_for(next_message, timeout) returns the result in the body
\* of the scope of future w, the body returns and next resumes after its
\* yield: del self._next[selected_condition], which raises KeyError when
\* the key is gone
wait_for_result(w) ==
    /\ futures[w].scope = "open"
    /\ futures[w].st = "result"
    /\ IF \E k \in DOMAIN _next : _next[k].key = futures[w].key
       THEN /\ _next' = dict_del(_next, futures[w].key)
            /\ futures' = [futures EXCEPT ![w].scope = "exited"]
       ELSE /\ futures' = [futures EXCEPT ![w].scope = KeyError]
            /\ UNCHANGED _next
    /\ UNCHANGED <<received, targets, packed, unpacked, compared, derived,
                   selVars, qVars, sVars, mVars, tVars>>

\* asyncio.wait_for(next_message, timeout) times out in the body of the
\* scope of future w: the future is cancelled and TimeoutError is raised in
\* the body, and so at the yield of next, which has no finally clause: the
\* del statement is not executed
wait_for_cancelled(w) ==
    /\ futures[w].scope = "open"
    /\ futures[w].st = "pending"
    /\ futures' = [futures EXCEPT ![w].st = "cancelled",
                                  ![w].scope = "TimeoutError"]
    /\ UNCHANGED <<_next, received, targets, packed, unpacked, compared,
                   derived, selVars, qVars, sVars, mVars, tVars>>

StaticNext ==
    \/ \E type_ \in {None, "a"}, condition \in {None, "P1"} :
           next(type_, condition)
    \/ \E m \in StaticKinds : StaticConnection_handle(m)
    \/ \E w \in DOMAIN futures : wait_for_result(w)
    \/ \E w \in DOMAIN futures : wait_for_cancelled(w)

\* One StaticConnection: await_message and send_and_await_reply calls, each
\* a next scope that waits for its future, and messages handled
SpecStatic == Init /\ [][StaticNext]_vars

(***************************************************************************)
(* Equality of types (type.py, message.py, operators.py)                   *)
(***************************************************************************)

\* A type string: doc_uri, protocol and name, and the version as written
TypeStr(key, version_str) == <<key, version_str>>

\* The type strings compared: every way of writing the versions of major 1,
\* and a version of major 2
TypeStrs ==
    {TypeStr(k, v) : k \in TypeKeys,
                     v \in {w \in VersionStrs : w[1] = 1} \cup {<<2, 0>>}}

\* An object is the tuple of its class and its attributes: a Type is
\* <<"Type", _str, _normalized>>, a str or a MsgType is <<class, the string>>

\* Type.from_str(type_str) of type.py: _str is Type.FORMAT with the version
\* as given, _normalized is Type.FORMAT with version_info
Type(type_str) ==
    <<"Type", type_str, TypeStr(type_str[1], from_str(type_str[2]))>>

\* Type.normalized
_normalized(self) == self[3]

\* A str that is not a MsgType
Str(type_str) == <<"builtins.str", type_str>>

\* MsgType(type_str) of message.py: a str, which is type_str; the parsed
\* parts are attributes of it and take no part in comparisons
MsgTypeOf(type_str) == <<"MsgType", type_str>>

\* Type.__hash__
Type__hash__(self) == _normalized(self)

\* Type.__eq__ with a Type or a str
Type__eq__(self, other) ==
    IF other[1] = "Type" THEN _normalized(self) = _normalized(other)
    ELSE _normalized(self) = other[2]

\* str.__hash__ and str.__eq__, which MsgType inherits: MsgType defines
\* neither
str__hash__(self) == self[2]
str__eq__(self, other) == self[2] = other[2]

\* lhs == rhs, and whether rhs finds the entry of lhs in a dict
Compare(lhs, rhs) ==
    LET equal == IF lhs[1] = "Type" THEN Type__eq__(lhs, rhs)
                 ELSE str__eq__(lhs, rhs)
        hash(x) == IF x[1] = "Type" THEN Type__hash__(x) ELSE str__hash__(x)
    IN  [eq |-> equal, same_key |-> hash(lhs) = hash(rhs) /\ equal]

\* msg_type_is(msg_type, msg): msg_type == msg.type, msg.type being a MsgType
msg_type_is(msg_type, msg) == str__eq__(msg_type, msg.type)

\* lhs == rhs for two Types, for a Type and a str, or for two MsgTypes
compare(lhs, rhs) ==
    /\ compared' = <<[op |-> "==", lhs |-> lhs, rhs |-> rhs]
                      @@ Compare(lhs, rhs)>>
    /\ UNCHANGED <<targets, packed, unpacked, derived, nVars, selVars, qVars,
                   sVars, mVars, tVars>>

\* A queue condition partial(msg_type_is, type_) applied to a message
condition(type_, msg) ==
    /\ compared' = <<[op |-> "msg_type_is", lhs |-> type_, rhs |-> msg.type,
                       eq |-> msg_type_is(type_, msg),
                       same_key |-> msg_type_is(type_, msg)]>>
    /\ UNCHANGED <<targets, packed, unpacked, derived, nVars, selVars, qVars,
                   sVars, mVars, tVars>>

TypeNext ==
    \/ \E a, b \in TypeStrs : compare(Type(a), Type(b))
    \/ \E a, b \in TypeStrs : compare(Type(a), Str(b))
    \/ \E a, b \in TypeStrs : compare(MsgTypeOf(a), MsgTypeOf(b))
    \/ \E a, b \in TypeStrs :
           condition(Str(a), [type |-> MsgTypeOf(b)])
    \/ \E a, b \in TypeStrs :
           condition(MsgTypeOf(a), [type |-> MsgTypeOf(b)])

\* Comparisons of types of every class, and type conditions on messages
SpecType == Init /\ [][TypeNext]_vars

(***************************************************************************)
(* C1                                                                      *)
(***************************************************************************)

\* the versions registered for the type's key that have the type's major
SameMajor(hv, type) ==
    IF type.key \in DOMAIN hv
    THEN {v \in hv[type.key] : v[1] = type.version_info[1]}
    ELSE {}

\* C1: dispatch calls the handler registered under the highest registered
\* version with the message's (namespace, protocol, name) and major version,
\* and raises NoRegisteredHandlerException when no registered version of the
\* key has that major.
C1_SelectHighestSameMajor ==
    \A i \in DOMAIN selected :
        LET same == SameMajor(handler_versions, selected[i].type) IN
        IF same = {}
        THEN /\ selected[i].handler = None
             /\ selected[i].raised = "NoRegisteredHandlerException"
        ELSE /\ selected[i].handler =
                    handlers[<<selected[i].type.key, MaxVersion(same)>>]
             /\ selected[i].raised = None

\* handlers at 1.0 and 2.0 (different handlers): a 1.4 message reached the 1.0 handler
C1_Witness ==
    \E i \in DOMAIN selected :
        /\ selected[i].type.version = <<1, 4>>
        /\ selected[i].type.key \in DOMAIN handler_versions
        /\ handler_versions[selected[i].type.key] = {<<1, 0, 0>>, <<2, 0, 0>>}
        /\ handlers[<<selected[i].type.key, <<2, 0, 0>>>>] # selected[i].handler
        /\ selected[i].handler = handlers[<<selected[i].type.key, <<1, 0, 0>>>>]

(***************************************************************************)
(* C2 .. C7                                                                *)
(***************************************************************************)


\* A step of Connection.handle, and the message it handles
HandleStep == Len(msgs') = Len(msgs) + 1
NewId == Len(msgs')
NewMsg == msgs'[Len(msgs')]

\* The step in which the finally clause of scope s ends, with or without an
\* exception
Ends(s) ==
    /\ scopes[s].st \in {"open", "flushing"}
    /\ scopes'[s].st \in {"exited", "failed"}

\* C2: on a connection with two scopes, one with predicate P1 and one with
\* the disjoint predicate P2, a message matching P1 that is handled while the
\* P1 scope is open goes to that scope's queue and nowhere else (likewise P2),
\* and a message matching neither is passed to the handler dispatcher, once.
C2_DisjointScopes ==
    [][(/\ HandleStep
        /\ Len(scopes) = 2
        /\ {scopes[1].condition, scopes[2].condition} = {"a", "b"}) =>
            /\ \A s \in OpenScopes :
                  LET t == 3 - s IN
                  NewMsg = scopes[s].condition =>
                      /\ scopes'[s].queue = Append(scopes[s].queue, NewId)
                      /\ scopes'[t].queue = scopes[t].queue
                      /\ handled'[NewId] + refused'[NewId] = 0
            /\ NewMsg \in {"c", "d"} =>
                  /\ handled'[NewId] + refused'[NewId] = 1
                  /\ \A s \in {1, 2} : scopes'[s].queue = scopes[s].queue]_vars

\* C3: no message is both returned by a queue.get and passed to a registered
\* handler, and no message is passed to registered handlers more than once.
C3_NeverTwice ==
    \A i \in DOMAIN msgs :
        /\ handled[i] <= 1
        /\ ~(got[i] # << >> /\ handled[i] > 0)

\* A scope returned one message to its consumer and, flushing on exit, has
\* passed another buffered message to its handler
C3_Witness ==
    \E s \in DOMAIN scopes :
        /\ scopes[s].st = "flushing"
        /\ \E i \in DOMAIN msgs : got[i] = <<s>> /\ handled[i] = 0
        /\ \E k \in 1..(scopes[s].idx - 1) :
              k <= Len(scopes[s].queue) /\ handled[scopes[s].queue[k]] = 1

\* C4: no buffered message is lost: a message that no get returned and that
\* is not held by a scope that is still open or flushing has been passed to
\* the handler dispatcher exactly once.
C4_NoBufferedMessageLost ==
    \A i \in DOMAIN msgs :
        \/ got[i] # << >>
        \/ handled[i] + refused[i] = 1
        \/ \E s \in DOMAIN scopes :
              /\ scopes[s].st \in {"open", "flushing"}
              /\ i \in Range(scopes[s].queue)

\* C5: a message handled while a scope is open whose condition it satisfies
\* is not passed to the handler dispatcher; a message that satisfies the
\* condition of no scope that is open or still flushing is passed to the
\* handler dispatcher during the handle call.
C5_MatchingIsBuffered ==
    [][HandleStep =>
        /\ (\E s \in OpenScopes : Matches(scopes[s].condition, NewMsg))
              => handled'[NewId] + refused'[NewId] = 0
        /\ (\A s \in DOMAIN scopes :
                scopes[s].st \in {"open", "flushing"}
                    => ~Matches(scopes[s].condition, NewMsg))
              => handled'[NewId] + refused'[NewId] = 1]_vars

\* The scopes whose body was running when the body of scope t ended
PeersAtExit(t) ==
    IF scopes[t].st = "open" THEN OpenScopes \ {t} ELSE scopes[t].peers

\* C6: when one of two concurrently pending waiters ends (its get timed out),
\* the other is unaffected: every message that was routed to the other
\* waiter's queue before is still routed to it afterwards.
C6_OtherWaiterUnaffected ==
    [][\A t \in DOMAIN scopes :
          Ends(t) =>
              \A s \in PeersAtExit(t) \cap OpenScopes, m \in Kinds :
                  dispatch(scopes, dispatcher, m) = s
                      => dispatch(scopes', dispatcher', m) = s]_vars

\* C7: when a scope has ended, in whatever way, the active dispatcher is the
\* one that was in effect when the scope was entered and no message is put
\* on the scope's queue any more.
C7_ScopeRestoresDispatcher ==
    [][\A s \in DOMAIN scopes :
          Ends(s) =>
              /\ dispatcher' = scopes[s].original
              /\ \A m \in Kinds : dispatch(scopes', dispatcher', m) # s]_vars

(***************************************************************************)
(* C8 - C10                                                                *)
(***************************************************************************)

\* the send_async calls made by the last step
SendAsyncCalls == {i \in DOMAIN sends : sends[i].call = "send_async"}

\* the send_to_session calls made by the last step
SendToSessionCalls == {i \in DOMAIN sends : sends[i].call = "send_to_session"}

\* a send_async call made by a handler while Connection.handle(msg, session)
\* dispatches a message whose ~transport.return_route is "all", and whose
\* message was packed
RepliesToAll(r) ==
    /\ r.session # << >>
    /\ r.return_route_in = "all"
    /\ r.packed

\* C8: when handle(msg, session) gets a message with return_route "all", the
\* session's thread is set to all before the message is dispatched, so a
\* send_async made by the handler during the dispatch is delivered through
\* that session's send callback and the transport function is not called.
C8_ReplyGoesThroughSession ==
    \A i \in SendAsyncCalls :
        RepliesToAll(sends[i]) =>
            /\ sends[i].session[1] \in Members(sessions)
            /\ thread_all(sends[i].session[1].thread)
            /\ sends[i].session[1] \in sends[i].to_sessions
            /\ ~sends[i].transported

C8_Witness ==
    \E i \in SendAsyncCalls :
        /\ RepliesToAll(sends[i])
        /\ sends[i].session[1] \in sends[i].to_sessions
        /\ ~sends[i].transported
        /\ target.endpoint

MatchingOpen(thid) ==
    {s \in Members(sessions) :
        /\ s.st = "open"
        /\ s.thread \notin {None, ""}
        /\ s.thread = THREAD_ALL \/ s.thread = thid}

\* C10: send_to_session delivers the message to exactly the open sessions
\* whose scope is "all" or equals the message's thread id, never to a
\* session with an empty scope or another thread id, and returns true if and
\* only if at least one session received it.
C10_ExactlyMatchingOpenSessions ==
    \A i \in SendToSessionCalls :
        /\ sends[i].to_sessions = MatchingOpen(sends[i].thid)
        /\ sends[i].raised = None =>
              (sends[i].sent <=> sends[i].to_sessions # {})

(***************************************************************************)
(* C11 - C15                                                               *)
(***************************************************************************)

\* C11: a session is in the connection's session set exactly while the
\* `with conn.session(...)` scope that created it is active: once the scope
\* has ended, normally or because the body raised, the session is not in
\* the set, session_open() does not count it and no send is delivered
\* through it.
C11_SessionInSetWhileScopeActive ==
    /\ \A s \in Members(sessions) : s.st = "open"
    /\ \A i \in DOMAIN sends : \A s \in sends[i].to_sessions : s.st = "open"

\* the scope the claim C12 names for a ~transport decorator
ScopeFor(dec) ==
    IF dec.return_route = "all" THEN THREAD_ALL
    ELSE IF dec.return_route = "thread" THEN dec.return_route_thread
    ELSE None

\* C12: handling a message whose ~transport.return_route is "all", "thread"
\* (with a return_route_thread) or "none" sets the session's scope to all,
\* to the given thread id, or to nothing, whatever the scope was before; and
\* after any sequence of handled messages should_return_route() is true
\* exactly when the scope is not empty.
C12_ScopeFollowsReturnRoute ==
    /\ \A i \in SendAsyncCalls :
          (/\ sends[i].session # << >>
           /\ sends[i].return_route_in \in {"all", "thread", "none"})
              => sends[i].session[1].thread =
                    ScopeFor([return_route |-> sends[i].return_route_in,
                              return_route_thread |-> sends[i].thread_in])
    /\ \A s \in Members(sessions) :
          should_return_route(s.thread) <=> s.thread \notin {None, ""}

C12_Witness ==
    /\ \E i \in SendAsyncCalls :
          /\ sends[i].session # << >>
          /\ sends[i].return_route_in = "thread"
          /\ sends[i].session[1].thread = "t1"
    /\ \E s \in Members(sessions) : s.thread = ""

\* C13: a send_async call whose message was packed, on a connection with no
\* endpoint, raises MessageDeliveryError and does not call the transport
\* function whenever no open session accepts the message, also when sessions
\* are open and none has a matching scope.
C13_NoEndpointRaises ==
    \A i \in SendAsyncCalls :
        (/\ sends[i].packed
         /\ ~target.endpoint
         /\ MatchingOpen(sends[i].thid) = {})
            => /\ sends[i].raised = "MessageDeliveryError"
               /\ ~sends[i].transported
               /\ sends[i].to_sessions = {}

\* the queues of the scopes sc that hold message i
Holders(sc, i) == {s \in DOMAIN sc : i \in Range(sc[s].queue)}

\* C14: when the transport function returns a response body and send_async
\* was called with no return_route or with "none", send_async raises and the
\* response is neither passed to a handler nor put on any queue.
C14_UnexpectedResponseRaises ==
    [][\A rr \in {None, "none"}, m \in ResponseKinds :
          send_async_response(rr, "body", m) =>
              /\ sends'[1].transported
              /\ sends'[1].raised = "RuntimeError"
              /\ UNCHANGED <<scopes, msgs, handled, refused, got>>]_vars

C14_Witness ==
    /\ sends # << >>
    /\ sends[1].response = "unexpected"
    /\ sends[1].return_route \in {None, "none"}
    /\ sends[1].raised = "RuntimeError"
    /\ \E s \in OpenScopes : scopes[s].condition = None

\* C15: when send_async is called with a return route and the transport
\* function returns a response body, the response is handled exactly once
\* before send_async returns: it is one new message that is put on exactly
\* one queue or passed once to the handler dispatcher; when the transport
\* function returns no body nothing is handled.
C15_ResponseHandledOnce ==
    [][\A rr \in ReturnRoutes \ {None, "none"}, out \in Outcomes,
          m \in ResponseKinds :
          send_async_response(rr, out, m) =>
              IF out = "body"
              THEN /\ msgs' = Append(msgs, m)
                   /\ handled'[Len(msgs')] + refused'[Len(msgs')]
                        + Cardinality(Holders(scopes', Len(msgs'))) = 1
                   /\ \A i \in DOMAIN msgs :
                        /\ handled'[i] = handled[i]
                        /\ refused'[i] = refused[i]
                        /\ Holders(scopes', i) = Holders(scopes, i)
              ELSE UNCHANGED <<scopes, msgs, handled, refused, got>>]_vars

C15_Witness ==
    /\ sends # << >>
    /\ sends[1].response = "handled"
    /\ msgs # << >>
    /\ \E s \in OpenScopes : Len(msgs) \in Range(scopes[s].queue)

(***************************************************************************)
(* C16                                                                     *)
(***************************************************************************)

\* send_and_await_reply enters Connection.queue with the predicate
\* is_reply_to(msg), here P1: the messages of type "a" are those whose
\* ~thread.thid is the @id of the message sent.  The scopes in which such a
\* call is waiting:
AwaitingReply == {s \in OpenScopes : scopes[s].condition = "a"}

\* the messages a get on scope s returns in this step
Returned(s) ==
    {i \in DOMAIN got : got'[i] # got[i] /\ got'[i][Len(got'[i])] = s}

\* C16: send_and_await_reply returns only a reply to the message sent; any
\* other message handled while the call waits is not put on the call's queue
\* and, when no other scope is open or flushing, is passed to the handler
\* dispatcher during the handle call.
C16_OnlyReplyCompletesWait ==
    [][\A s \in AwaitingReply :
          /\ \A i \in Returned(s) : msgs[i] = "a"
          /\ (HandleStep /\ NewMsg # "a") =>
                /\ scopes'[s].queue = scopes[s].queue
                /\ (\A t \in DOMAIN scopes \ {s} :
                        scopes[t].st \in {"exited", "failed"})
                      => handled'[NewId] + refused'[NewId] = 1]_vars

(***************************************************************************)
(* C17 - C19                                                               *)
(***************************************************************************)

\* task t has called get, has neither returned nor timed out and does not
\* run, while the queue holds an entry its predicate accepts
BlockedWithMatch(t) ==
    /\ t \in DOMAIN tasks
    /\ tasks[t].pc \in {"ready", "waiting"}
    /\ GetIndex(_queue, tasks[t].condition) # 0

\* C17: with several tasks in MsgQueue.get, an entry is returned to at most
\* one of them, and no task stays blocked while the queue holds an unclaimed
\* entry that its predicate accepts, whatever other waiters with other
\* predicates exist.
C17_MatchedWaiterProceeds ==
    /\ [](\A t, u \in DOMAIN tasks :
              (t # u /\ tasks[t].pc = "returned" /\ tasks[u].pc = "returned")
                  => tasks[t].result # tasks[u].result)
    /\ \A t \in 1..MaxWaiters : BlockedWithMatch(t) ~> ~BlockedWithMatch(t)

\* C18: a get(predicate) called while the queue holds only entries that do
\* not satisfy the predicate lets other tasks run: as long as it has not
\* ended it is suspended, and the entries stay in the queue.
C18_GetWithoutMatchSuspends ==
    \A t \in DOMAIN tasks :
        (tasks[t].pc \in Pending /\ _queue # << >>
            /\ GetIndex(_queue, tasks[t].condition) = 0)
                => tasks[t].pc \in {"ready", "waiting"}

\* C19: a get whose deadline has passed ends, with the entry it was waiting
\* for or with a timeout error, whether the queue is empty or holds entries
\* that do not match.
C19_GetEndsAfterDeadline ==
    \A t \in 1..MaxWaiters :
        (t \in DOMAIN tasks /\ tasks[t].expired /\ tasks[t].pc \in Pending)
            ~> (t \in DOMAIN tasks /\ tasks[t].pc \in Ended)

(***************************************************************************)
(* C20                                                                     *)
(***************************************************************************)

\* C20: in every MessageTrustContext, after any sequence of item
\* assignments (True, False, None) and preset calls, no flag is both
\* affirmed and denied; a constructor call whose affirmed and denied
\* arguments overlap raises ContextsConflict.
C20_NeverAffirmedAndDenied ==
    /\ mtc.raised = None => mtc.affirmed \cap mtc.denied = {}
    /\ mtc.affirmed \cap mtc.denied # {} => mtc.raised = "ContextsConflict"

C20_Witness ==
    /\ mtc.raised = None
    /\ mtc.op = "__setitem__"
    /\ mtc.affirmed = {"NONREPUDIATION", "INTEGRITY"}
    /\ mtc.denied = {"DESERIALIZE_OK"}

(***************************************************************************)
(* C21                                                                     *)
(***************************************************************************)

\* C21: whatever the trust context held before, right after set_authcrypted,
\* set_anoncrypted or set_plaintext exactly the corresponding one of
\* is_authcrypted(), is_anoncrypted(), is_plaintext() is true; the sender is
\* None after set_anoncrypted and after set_plaintext; set_plaintext affirms
\* DESERIALIZE_OK only and denies CONFIDENTIALITY, INTEGRITY and
\* AUTHENTICATED_ORIGIN.
C21_PresetSetsExactlyOne ==
    /\ mtc.op = "set_authcrypted" =>
           is_authcrypted(mtc) /\ ~is_anoncrypted(mtc) /\ ~is_plaintext(mtc)
    /\ mtc.op = "set_anoncrypted" =>
           /\ ~is_authcrypted(mtc) /\ is_anoncrypted(mtc) /\ ~is_plaintext(mtc)
           /\ mtc.sender = None
    /\ mtc.op = "set_plaintext" =>
           /\ ~is_authcrypted(mtc) /\ ~is_anoncrypted(mtc) /\ is_plaintext(mtc)
           /\ mtc.sender = None
           /\ mtc.affirmed = {"DESERIALIZE_OK"}
           /\ mtc.denied = {"CONFIDENTIALITY", "INTEGRITY", "AUTHENTICATED_ORIGIN"}

C21_Witness ==
    /\ mtc.op = "set_anoncrypted"
    /\ is_anoncrypted(mtc)
    /\ mtc.recipient = "vkB"
    /\ mtc.sender = None

(***************************************************************************)
(* C22                                                                     *)
(***************************************************************************)

\* C22: is_authcrypted(), is_anoncrypted() and is_plaintext() are true only
\* when the affirmed set and the denied set are exactly the preset's sets; a
\* context with further affirmed or denied flags is not reported as the
\* preset.
C22_PresetChecksAreExact ==
    mtc.raised = None =>
        /\ is_authcrypted(mtc) =>
               mtc.affirmed = AUTHCRYPT_AFFIRMED /\ mtc.denied = AUTHCRYPT_DENIED
        /\ is_anoncrypted(mtc) =>
               mtc.affirmed = ANONCRYPT_AFFIRMED /\ mtc.denied = ANONCRYPT_DENIED
        /\ is_plaintext(mtc) =>
               mtc.affirmed = PLAINTEXT_AFFIRMED /\ mtc.denied = PLAINTEXT_DENIED

(***************************************************************************)
(* C23                                                                     *)
(***************************************************************************)

\* The dict that the input of the last unpack call holds, if it holds one
InputObject ==
    LET input == unpacked.input[1]
    IN  IF isinstance_bytes(input) THEN input.text ELSE <<input>>

\* The input of the last unpack call is an envelope made with that alg
InputPackedAs(alg) ==
    /\ InputObject # << >>
    /\ "protected" \in DOMAIN InputObject[1]
    /\ InputObject[1].protected.alg = alg

\* The input of the last unpack call is JSON that is no envelope
InputPlainJson ==
    /\ InputObject # << >>
    /\ "protected" \notin DOMAIN InputObject[1]

\* C23: whenever Connection.unpack returns a message, its trust context
\* tells how the input was packed: it is the authcrypt preset with the
\* packer's verkey as sender iff the input was an authcrypt envelope, the
\* anoncrypt preset with no sender iff it was an anoncrypt envelope, the
\* plaintext preset with no sender and no recipient iff it was plain JSON;
\* AUTHENTICATED_ORIGIN is affirmed only when decryption gave a sender key.
C23_TrustContextTellsPacking ==
    (unpacked.call = "unpack" /\ unpacked.raised = None) =>
        /\ (is_authcrypted(unpacked.mtc) /\ unpacked.mtc.sender # None)
               <=> InputPackedAs("Authcrypt")
        /\ InputPackedAs("Authcrypt") =>
               /\ unpacked.mtc.sender = InputObject[1].ciphertext.sender
               /\ unpacked.of = "pack" =>
                      unpacked.mtc.sender = bytes_to_b58(packed.self)
        /\ (is_anoncrypted(unpacked.mtc) /\ unpacked.mtc.sender = None)
               <=> InputPackedAs("Anoncrypt")
        /\ (/\ is_plaintext(unpacked.mtc)
            /\ unpacked.mtc.sender = None
            /\ unpacked.mtc.recipient = None)
               <=> InputPlainJson
        /\ "AUTHENTICATED_ORIGIN" \in unpacked.mtc.affirmed =>
               /\ InputPackedAs("Authcrypt")
               /\ InputObject[1].ciphertext.sender # None

C23_Witness ==
    /\ unpacked.call = "unpack"
    /\ unpacked.raised = None
    /\ unpacked.of = "pack"
    /\ unpacked.self = Bob
    /\ packed.self = Alice
    /\ packed.anoncrypt
    /\ is_anoncrypted(unpacked.mtc)
    /\ unpacked.mtc.recipient = bytes_to_b58(Bob)

(***************************************************************************)
(* C24                                                                     *)
(***************************************************************************)

\* The last unpack call was made by the peer of the connection that packed
\* its input, the two being configured with each other's verkey, and the
\* input is what pack returned with encryption
PeerUnpacksPacked ==
    /\ unpacked.call = "unpack"
    /\ unpacked.of = "pack"
    /\ Len(unpacked.opened) = 1
    /\ ~packed.plaintext
    /\ unpacked.self \in DOMAIN targets
    /\ targets[packed.self] = Target(unpacked.self)
    /\ targets[unpacked.self] = Target(packed.self)

\* What C24 says of the message returned by the peer's unpack
RoundTrip ==
    /\ unpacked.raised = None
    /\ unpacked.msg[1] = packed.msg
    /\ unpacked.mtc.sender = IF packed.anoncrypt THEN None
                             ELSE bytes_to_b58(packed.self)
    /\ ~packed.anoncrypt => unpacked.mtc.recipient = bytes_to_b58(unpacked.self)

Layer(k, n) ==
    /\ unpacked.call = "unpack"
    /\ unpacked.of = "pack"
    /\ ~packed.plaintext
    /\ Len(unpacked.opened) = k
    /\ Len(targets[packed.self].routing_keys) = n

\* C25: packing with routing keys [R1, ..., Rn] gives an onion.  The k-th
\* layer from the outside (k <= n) is opened by R(n-k+1) only, so the
\* outermost by Rn only; it is an anoncrypted forward message whose `to` is
\* the previous hop, R(n-k), or the first recipient for R1's layer, and whose
\* `msg` is the next envelope.  The innermost envelope is opened by the
\* recipients only and holds the message that was packed.
C25_RoutingOnion ==
    \A n \in 1..MaxRouting, k \in 1..(MaxRouting + 1) :
        Layer(k, n) =>
            LET t == targets[packed.self]
            IN  IF k <= n
                THEN /\ unpacked.raised = None
                            <=> unpacked.self = t.routing_keys[n - k + 1]
                     /\ unpacked.raised = None =>
                            /\ unpacked.msg[1].type = FORWARD
                            /\ unpacked.msg[1].to = bytes_to_b58(
                                   IF k = n THEN t.recipients[1]
                                   ELSE t.routing_keys[n - k])
                            /\ unpacked.msg[1].msg # << >>
                            /\ "protected" \in DOMAIN unpacked.msg[1].msg[1]
                            /\ is_anoncrypted(unpacked.mtc)
                            /\ unpacked.mtc.sender = None
                ELSE k = n + 1 =>
                     /\ unpacked.raised = None
                            <=> unpacked.self \in Range(t.recipients)
                     /\ unpacked.raised = None =>
                            /\ <<unpacked.msg[1]>> = serialize(packed.msg).text
                            /\ is_authcrypted(unpacked.mtc) <=> ~packed.anoncrypt

C25_Witness ==
    /\ Layer(2, 2)
    /\ unpacked.opened = <<"vkR2", "vkR1">>
    /\ targets[packed.self].routing_keys = <<"vkR1", "vkR2">>
    /\ unpacked.raised = None
    /\ unpacked.msg[1].to = bytes_to_b58(Bob)

(***************************************************************************)
(* C26 .. C29                                                              *)
(***************************************************************************)

\* C26: a message is routed to a handler registered under its (namespace,
\* protocol, name) and major version whether that handler's minor and patch
\* are lower or higher than the message's: whenever some version with the
\* message's key and major is registered, dispatch calls a handler
\* registered under such a version.
C26_SameMajorAnyMinor ==
    \A i \in DOMAIN selected :
        LET type == selected[i].type
            same == SameMajor(handler_versions, type)
        IN  same # {} =>
                /\ selected[i].raised = None
                /\ \E v \in same : selected[i].handler = handlers[<<type.key, v>>]

\* a 1.0 message was dispatched to the handler registered at 1.4
C26_Witness ==
    \E i \in DOMAIN selected :
        /\ selected[i].type.version_info = <<1, 0, 0>>
        /\ selected[i].type.key \in DOMAIN handler_versions
        /\ handler_versions[selected[i].type.key] = {<<1, 4, 0>>}
        /\ selected[i].raised = None
        /\ selected[i].handler = handlers[<<selected[i].type.key, <<1, 4, 0>>>>]

\* C27 (as stated): the handler that select returns is registered at a
\* version whose major equals the message's major and which is less than or
\* equal to the message's version.
C27_SelectedNotAboveMessage ==
    \A i \in DOMAIN selected :
        LET type == selected[i].type IN
        selected[i].handler # None =>
            \E v \in SameMajor(handler_versions, type) :
                /\ ~VersionLess(type.version_info, v)
                /\ selected[i].handler = handlers[<<type.key, v>>]

\* C27 (amended): the handler that select returns is registered at a
\* version whose major equals the message's major; that version may be
\* above the message's version.
C27_SelectedSameMajor ==
    \A i \in DOMAIN selected :
        LET type == selected[i].type IN
        selected[i].handler # None =>
            \E v \in SameMajor(handler_versions, type) :
                selected[i].handler = handlers[<<type.key, v>>]

\* a 2.0 message reached the handler at 2.4, not the other handler, which
\* is registered at 1.0
C27_Witness ==
    \E i \in DOMAIN selected :
        /\ selected[i].type.version = <<2, 0>>
        /\ selected[i].type.key \in DOMAIN handler_versions
        /\ handler_versions[selected[i].type.key] = {<<1, 0, 0>>, <<2, 4, 0>>}
        /\ selected[i].handler = handlers[<<selected[i].type.key, <<2, 4, 0>>>>]
        /\ selected[i].handler # handlers[<<selected[i].type.key, <<1, 0, 0>>>>]

\* The routing entries of a type, however its version was written
EntriesOf(hs, type) ==
    {n \in DOMAIN hs : n[1] = type.key /\ from_str(n[2]) = type.version_info}

\* C28: add replaces on conflict and is idempotent.  After add(type,
\* handler) there is one routing entry for the type, holding that handler,
\* and its version is in the version index; the other entries are as
\* before; a dispatch that resolves to this type's version calls that
\* handler.  If the type was registered before, written as 1.0 or as 1.0.0,
\* no entry is added to either table; if it was registered with the same
\* handler, both tables are as before.
C28_AddReplaces ==
    [][added' # << >> =>
          LET type == added'[1].type
              handler == added'[1].handler
          IN  /\ Cardinality(EntriesOf(handlers', type)) = 1
              /\ \A n \in EntriesOf(handlers', type) : handlers'[n] = handler
              /\ type.version_info \in handler_versions'[type.key]
              /\ \A n \in DOMAIN handlers \ EntriesOf(handlers, type) :
                     n \in DOMAIN handlers' /\ handlers'[n] = handlers[n]
              /\ MaxVersion(SameMajor(handler_versions', type)) = type.version_info =>
                     HandlerDispatch(handlers', handler_versions', type).handler = handler
              /\ EntriesOf(handlers, type) # {} =>
                     /\ DOMAIN handlers' = DOMAIN handlers
                     /\ handler_versions' = handler_versions
              /\ (\E n \in EntriesOf(handlers, type) : handlers[n] = handler) =>
                     /\ handlers' = handlers
                     /\ handler_versions' = handler_versions]_vars

\* a handler was added, under a version written 1.0.0, for a type that was
\* registered with the other handler
C28_Witness ==
    /\ added # << >>
    /\ added[1].type.version = <<1, 0, 0>>
    /\ added[1].was = "h1"
    /\ added[1].handler = "h2"
    /\ Cardinality(DOMAIN handlers) = 1

\* C29: remove raises NoRegisteredHandlerException iff the type is not
\* registered, and then leaves both tables as they were; for a registered
\* type it raises nothing and deletes the handler and the type's version
\* from the version index, so that a message of that type is no longer
\* routed to the removed handler.
C29_RemoveUnregisters ==
    [][removed' # << >> =>
          LET type == removed'[1].type
              registered == type.normalized \in DOMAIN handlers
          IN  /\ removed'[1].raised = "NoRegisteredHandlerException"
                     <=> ~registered
              /\ ~registered => UNCHANGED <<handlers, handler_versions>>
              /\ registered =>
                     /\ removed'[1].raised = None
                     /\ type.normalized \notin DOMAIN handlers'
                     /\ type.key \in DOMAIN handler_versions' =>
                            type.version_info \notin handler_versions'[type.key]
                     /\ HandlerDispatch(handlers', handler_versions', type).raised
                            # KeyError]_vars

(***************************************************************************)
(* C30                                                                     *)
(***************************************************************************)

\* The type string of an operand, and its normalized form
\* The string of a Type (_str), a str or a MsgType
StrOf(x) == x[2]
NormalizedOf(x) == TypeStr(StrOf(x)[1], from_str(StrOf(x)[2]))

\* C30: two types that differ only in writing the version as major.minor or
\* as major.minor.0 are equal and are the same dict key, for two Types and
\* for two MsgTypes, and a type condition (msg_type_is) given in one form
\* matches a message whose type is written in the other; types whose
\* normalized forms differ are unequal and the condition does not match.
C30_EqualByNormalizedForm ==
    \A i \in DOMAIN compared :
        LET c == compared[i] IN
        (c.op = "msg_type_is" \/ c.lhs[1] = c.rhs[1]) =>
            IF NormalizedOf(c.lhs) = NormalizedOf(c.rhs)
            THEN c.eq /\ c.same_key
            ELSE ~c.eq

(***************************************************************************)
(* C39                                                                     *)
(***************************************************************************)

\* C39: the assignment mtc[context] = None makes the property undefined:
\* right after it mtc[context] is None, whether the flags of context were
\* affirmed, denied or undefined before, and mtc[f] is as before for every
\* other flag f.
C39_NoneMakesUndefined ==
    [][\A context \in SUBSET Context \ {{}} :
           __setitem__(context, "None") =>
               /\ __getitem__(mtc', context) = "None"
               /\ \A f \in Context \ context :
                      __getitem__(mtc', {f}) = __getitem__(mtc, {f})]_vars

(***************************************************************************)
(* C35                                                                     *)
(***************************************************************************)

\* C35: after any sequence of add, remove and clear calls, failed calls
\* included, the two tables describe the same registrations: every version
\* in the version index has a handler under its normalized type, every
\* handler has its version in the index, and no dispatch fails with a
\* KeyError.
C35_TablesAgree ==
    /\ \A k \in DOMAIN handler_versions :
           \A v \in handler_versions[k] : <<k, v>> \in DOMAIN handlers
    /\ \A n \in DOMAIN handlers :
           n[1] \in DOMAIN handler_versions /\ n[2] \in handler_versions[n[1]]
    /\ \A i \in DOMAIN selected : selected[i].raised # KeyError

(***************************************************************************)
(* C36                                                                     *)
(***************************************************************************)

\* C36: when every scope opened on the connection has exited, its finally
\* clause having run to the end, in whatever order the scopes exited, the
\* active dispatcher is the handler dispatcher and every message handled
\* from then on goes to the handler dispatcher, not to the queue of an
\* exited scope.
C36_AllExitedRestoresHandlers ==
    (scopes # << >> /\ \A s \in DOMAIN scopes : scopes[s].st = "exited") =>
        /\ dispatcher = 0
        /\ \A m \in Kinds : dispatch(scopes, dispatcher, m) = 0

(***************************************************************************)
(* C34                                                                     *)
(***************************************************************************)

\* C34: a get returns buffered messages in arrival order: the message it
\* returns is the oldest entry of the queue when no condition is given, and
\* the oldest entry that satisfies the condition when one is given.
C34_GetReturnsOldest ==
    [][\A s \in DOMAIN scopes, c \in Conditions :
          get(s, c) =>
              \E k \in DOMAIN scopes[s].queue :
                  /\ got'[scopes[s].queue[k]] = Append(got[scopes[s].queue[k]], s)
                  /\ Matches(c, msgs[scopes[s].queue[k]])
                  /\ \A j \in 1..(k - 1) :
                         ~Matches(c, msgs[scopes[s].queue[j]])]_vars

(***************************************************************************)
(* C37                                                                     *)
(***************************************************************************)

\* A message without ~transport decorator
NoTransport == [return_route |-> "absent", return_route_thread |-> None]

\* C37: handling a message without ~transport decorator over a session
\* leaves the session's scope as it is and dispatches the message, whether
\* the session's scope is empty, a thread id or all: the handle call does
\* not end in update_thread_from_msg, and no session changes.
C37_NoDecoratorKeepsScope ==
    [][\A s \in Members(sessions) :
          /\ ~handle_session_raise(s, NoTransport)
          /\ (\E reply \in BOOLEAN, thid \in Thids, out \in Outcomes :
                  handle_session(s, NoTransport, reply, thid, out))
                 => sessions' = sessions]_vars

(***************************************************************************)
(* C31                                                                     *)
(***************************************************************************)

\* C31: with_transport, with_thread and send_async leave the message they
\* are given as it was.  send_async with a return_route packs a message
\* that has the fields of the caller's message, its @id among them, and
\* the decorator ~transport = {return_route}; the peer that unpacks what
\* was sent finds that decorator and that @id.  Without return_route the
\* caller's message itself is packed.
C31_CallerMessageUnchanged ==
    \A i \in DOMAIN derived :
        LET d == derived[i] IN
        /\ d.self = d.arg
        /\ (d.call = "send_async" /\ ~truthy(d.return_route)) =>
               d.result = d.arg
        /\ (d.call = "send_async" /\ truthy(d.return_route)) =>
               /\ d.result["~transport"] = [return_route |-> d.return_route]
               /\ d.result.id = d.arg.id
               /\ \A f \in DOMAIN d.arg \ {"~transport"} :
                      d.result[f] = d.arg[f]
               /\ (unpacked.call = "unpack" /\ unpacked.raised = None) =>
                      /\ unpacked.msg[1]["~transport"] =
                             [return_route |-> d.return_route]
                      /\ unpacked.msg[1].id = d.arg.id

\* Alice sent a message without decorator with return_route "all", Bob
\* unpacked what was sent and found the decorator; Alice's message has none
C31_Witness ==
    \E i \in DOMAIN derived :
        /\ derived[i].call = "send_async"
        /\ derived[i].return_route = "all"
        /\ "~transport" \notin DOMAIN derived[i].arg
        /\ "~transport" \notin DOMAIN derived[i].self
        /\ packed.self = Alice
        /\ unpacked.call = "unpack"
        /\ unpacked.self = Bob
        /\ unpacked.raised = None
        /\ unpacked.msg[1]["~transport"].return_route = "all"
        /\ unpacked.msg[1].id = derived[i].arg.id

(***************************************************************************)
(* C32                                                                     *)
(***************************************************************************)

\* C32: once the next scope of an await_message or send_and_await_reply
\* call has ended, by a message or by the timeout, no entry of _next holds
\* its future or its condition; a message resolves at most one future and
\* is then not dispatched, and no future is resolved by two messages.
C32_NoWaiterLeft ==
    /\ \A w \in DOMAIN futures :
           futures[w].scope # "open" =>
               \A k \in DOMAIN _next :
                   _next[k].value # w /\ _next[k].key # futures[w].key
    /\ \A i \in DOMAIN received :
           /\ Cardinality(received[i].resolved) <= 1
           /\ ~(received[i].resolved # {} /\ received[i].dispatched)
    /\ \A w \in DOMAIN futures :
           Cardinality({i \in DOMAIN received : w \in received[i].resolved}) <= 1

(***************************************************************************)
(* C33                                                                     *)
(***************************************************************************)

\* C33: the body of a handler wrapped with utils.authcrypted runs for a
\* message that Connection.unpack returned exactly when the message was
\* packed authcrypted; for a message packed anoncrypted or in plaintext the
\* wrapper raises InsufficientMessageTrust and the body does not run.
\* Likewise utils.anoncrypted runs the body exactly for messages packed
\* anoncrypted.
C33_WrappedRunsOnlyIfTrusted ==
    "handler" \in DOMAIN unpacked =>
        LET h == unpacked.handler
            authcrypt == ~packed.anoncrypt /\ ~packed.plaintext
            anoncrypt == packed.anoncrypt /\ ~packed.plaintext
        IN  /\ h.ran <=> IF h.decorator = "authcrypted" THEN authcrypt
                          ELSE anoncrypt
            /\ h.ran => h.raised = None
            /\ ~h.ran => h.raised = "InsufficientMessageTrust"

\* Alice packed a message anoncrypted, Bob unpacked it and passed it to a
\* handler wrapped with utils.authcrypted, which raised
C33_Witness ==
    /\ "handler" \in DOMAIN unpacked
    /\ packed.self = Alice
    /\ packed.anoncrypt
    /\ unpacked.self = Bob
    /\ is_anoncrypted(unpacked.mtc)
    /\ unpacked.handler.decorator = "authcrypted"
    /\ unpacked.handler.raised = "InsufficientMessageTrust"
    /\ ~unpacked.handler.ran

(***************************************************************************)
(* C38                                                                     *)
(***************************************************************************)

\* C38: a send_to_session call made with sessions open, during which other
\* sessions were opened or closed while it was suspended in a send callback,
\* does not raise, and every session that was in the set when the call was
\* made, is still there when it ends and matches the thread has been sent
\* the message.
C38_SendSurvivesSessionChanges ==
    \A i \in DOMAIN sends :
        (/\ sends[i].call = "send_to_session"
         /\ sends[i].initial # {})
        => /\ sends[i].raised = None
           /\ \A s \in sends[i].initial \cap Members(sessions) :
                 accepts(s.thread, sends[i].thid) => s \in sends[i].to_sessions

====
